---- MODULE Spec2Model ----
(***************************************************************************)
(* Advanced-Patch-Generator: the patch operations of AdvancedPatchGenerator *)
(* (src/src/lib/AdvancedPatchGenerator.js, the JavaScript build, and      *)
(* src/src/lib/AdvancedPatchGenerator.ts, the TypeScript build), the       *)
(* subprocess helpers of CommandUtils and the batch scheduler.             *)
(*                                                                         *)
(* One generator instance runs one top-level call at a time.  A call is a   *)
(* stack of async functions; pc is the position of the function on top.    *)
(* Every await is a step boundary; the code between two awaits is one       *)
(* action.  Subprocesses are records in `children`, moved by the events    *)
(* the operating system delivers (close, error) and by the timeout timer.  *)
(*                                                                         *)
(* Spec: single calls of the public methods.  SpecBatch: one call of       *)
(* createBatchPatches / applyBatchPatches.  SpecRoundTrip: createPatch,     *)
(* applyPatch and verifyPatch in a row on file contents.                   *)
(***************************************************************************)
EXTENDS Integers, Sequences, FiniteSets, TLC

\* ------------------------------------------------------------------ bounds
MaxCalls == 2          \* top-level calls made on one generator instance
MaxTicks == 2          \* firings of the synthetic-progress interval per call
MaxChunks == 2         \* chunks of the old / of the new file of a large pair

\* ------------------------------------------------------- program constants
maxParallelChunks == 4 \* createPatchWithChunks: chunk jobs started per batch

Impls == {"js", "ts"}
Calls == {"createPatch", "applyPatch", "verifyPatch", "checkXdelta"}

VARIABLES
  impl,           \* which build of the library the instance is
  tool,           \* the xdelta executable: "ok", "missing" or "broken"
  oldExists,      \* the old file (first input) exists
  otherExists,    \* the second input exists: the new file (create) or the patch
  errorListener,  \* the caller registered a listener for the 'error' event
  isLargeFile,    \* a size is above largeFileThreshold
  nOld, nNew,     \* chunks createFileChunks makes of the old / new file
  xdeltaChecked, xdeltaAvailable,   \* this._xdeltaChecked, this._xdeltaAvailable
  calls,          \* top-level calls started so far
  method,         \* the public method the caller invoked last
  stack,          \* the async functions of the running call, innermost first
  pc,             \* position of the innermost function
  ret,            \* how the function that just returned ended: ok, fail, throw
  result,         \* what the top-level call gave its caller
  progress,       \* percentages delivered to the 'progress' observers, in order
  ticks,          \* firings of the synthetic-progress interval in this call
  interval,       \* the synthetic-progress interval is set
  children,       \* subprocesses and copies of the call, by job index
  elapsed,        \* job indexes whose configured timeout has passed
  chunkResult,    \* what createPatchWithChunks returned: ok or fail
  batchStart,     \* first chunk index of the running batch of chunk jobs
  patchChunks,    \* records collected from the finished batches, in order
  tempDir,        \* the temp_chunks directory exists
  patchOnDisk,    \* the file at the destination patch path: absent, partial, complete
  combined,       \* the records in combined_patch.xdelta when combinePatchChunks ended
  outOfOrder,     \* a chunk job finished while a job of a lower index was running
  notices         \* 'error' and 'complete' events delivered in the running call, in order

envVars == <<impl, tool, oldExists, otherExists, errorListener, isLargeFile, nOld, nNew>>
cacheVars == <<xdeltaChecked, xdeltaAvailable>>
chunkVars == <<chunkResult, batchStart, patchChunks, tempDir>>
opVars == <<envVars, cacheVars, calls, method, stack, pc, ret, result, progress, ticks,
            interval, children, elapsed, chunkVars, patchOnDisk, combined, outOfOrder,
            notices>>

\* the batch scheduler (createBatchPatches / applyBatchPatches)
VARIABLES
  bKind,          \* "create" (createBatchPatches) or "apply" (applyBatchPatches)
  nFiles,         \* files readdir returned: they are numbered 1 .. nFiles
  hasOld,         \* the files whose counterpart exists in oldDir
  optMaxParallel, \* options.maxParallel (0: not given)
  skipUnchanged,  \* options.skipUnchanged
  bpc,            \* "init", "awaiting" (at Promise.all) or "returned"
  queue,          \* the queue array
  running,        \* the running array
  awaited,        \* the promises allPromises held when Promise.all was called
  task,           \* per file: queued, exists, comparing, op or finished
  outcome,        \* per file: how its createPatch / applyPatch call ended
  patches,        \* the patches / results array
  returned        \* the array's content when the batch call returned

\* the files of a create -> apply -> verify run
VARIABLES
  oldBytes,       \* content of the old file
  newBytes,       \* content of the new file
  chunkSize,      \* this.defaultOptions.maxChunkSize
  threshold,      \* this.defaultOptions.largeFileThreshold
  rpc,            \* the run: "init", "created", "decoding", "applied" or "verified"
  patchFile,      \* records of the patch file, NoPatch while there is none
  outBytes,       \* content of the file applyPatch wrote, NoFile while none
  createRes, applyRes, verifyRes   \* what the three calls gave the caller

rtEnv == <<oldBytes, newBytes, chunkSize, threshold>>
rtVars == <<rtEnv, rpc, patchFile, outBytes, createRes, applyRes, verifyRes>>

\* chunk planning (createChunks of the TypeScript build, createFileChunks of
\* the JavaScript build); sizes are counted in units of 32 MiB
VARIABLES
  plSize,         \* size of the file
  plChunk,        \* the chunkSize argument
  plOverlap,      \* the overlap argument of createChunks
  plState,        \* idle, running, closing, returned or failed
  plStart,        \* createChunks: start
  plIndex,        \* index / chunkIndex
  plPos,          \* createFileChunks: bytes the read stream has delivered
  plRead,         \* createFileChunks: bytesRead
  plChunks,       \* the chunks array
  plRaced         \* a stream event arrived while a chunk was being closed

planEnv == <<plSize, plChunk, plOverlap>>
planVars == <<planEnv, plState, plStart, plIndex, plPos, plRead, plChunks, plRaced>>

\* size tiers and the optimization profile; sizes are counted in units of
\* 10 MiB
VARIABLES
  szOld, szNew,   \* sizes of the old and of the new file
  prState,        \* idle, classified or selected
  prOld, prNew,   \* getOptimizationSettings of the two sizes, once computed
  prRequested,    \* mergedOptions.compression: the level the caller asked for
  prChunked,      \* createPatch took the chunked path
  prLevel         \* the compression level in the encoder's arguments

profVars == <<szOld, szNew, prState, prOld, prNew, prRequested, prChunked, prLevel>>

\* the temp_chunks directories of two create operations that run at once
VARIABLES
  tSameDir,       \* the two patch files are written into the same directory
  tpc,            \* per operation: its position in createPatchWithChunks
  tDir,           \* per directory: its temp_chunks directory exists
  tFiles,         \* per directory and file name: the operation that wrote it
  tEvents         \* what an operation did to a file of the other, running one

tempVars == <<tSameDir, tpc, tDir, tFiles, tEvents>>
auxVars == <<profVars, tempVars>>

batchEnv == <<bKind, nFiles, hasOld, optMaxParallel, skipUnchanged>>
batchVars == <<batchEnv, bpc, queue, running, awaited, task, outcome, patches, returned>>

\* what the actions of a single call leave alone
baseFrame == <<envVars, batchVars, method, rtVars, planVars, auxVars>>
callFrame == <<baseFrame, combined, outOfOrder>>
opFrame == <<callFrame, patchOnDisk>>

\* what the batch scheduler leaves alone
batchFrame == <<opVars, rtVars, planVars, auxVars>>

\* what a create -> apply -> verify run leaves alone
rtFrame == <<opVars, batchVars, planVars, auxVars>>

\* what chunk planning leaves alone
planFrame == <<opVars, batchVars, rtVars, auxVars>>

\* what the choice of the optimization profile leaves alone
profFrame == <<opVars, batchVars, rtVars, planVars, tempVars>>

\* what the operations on temp_chunks leave alone
tempFrame == <<opVars, batchVars, rtVars, planVars, profVars>>

vars == <<opVars, batchVars, rtVars, planVars, auxVars>>

\* ------------------------------------------------------------ subprocesses
\* A job of the running call.  kind: "spawn" (a subprocess started by
\* spawnCommand or executeCommand) or "copy" (fs.copy of a new-only chunk) or
\* "none" (a removed chunk: an already resolved promise).  st: the process is
\* "running" or "closed".  settled: the promise the caller awaits.
\* code: the exit code the 'close' event delivered, once it has.
NoChildren == [i \in {} |-> 0]

\* spawnCommand(command, args, {timeoutMs}): the timer is armed when timeoutMs > 0.
\* executeCommand of the TypeScript build has no timer at all.
spawnCommand(help) ==
  [kind |-> "spawn", st |-> "running", settled |-> "pending", success |-> FALSE,
   timer |-> TRUE, killed |-> FALSE, help |-> help, usage |-> FALSE,
   code |-> <<>>]

executeCommand(help) ==
  [kind |-> "spawn", st |-> "running", settled |-> "pending", success |-> FALSE,
   timer |-> FALSE, killed |-> FALSE, help |-> help, usage |-> FALSE,
   code |-> <<>>]

\* const isSuccess = code === 0 || (isHelpCommand && code === 1)
isSuccessJS(code, help) == code = 0 \/ (help /\ code = 1)

\* const success = code === 0
isSuccessTS(code, help) == code = 0

\* a promise whose resolve / reject would take effect on every call
settleEveryTime(c, how) == how

\* the settled state after resolve/reject: the first settlement is final
Settle(c, how) == IF c.settled = "pending" THEN how ELSE c.settled

\* exit codes a process ends with by itself: 0, 1 (xdelta3 -h), 2 (any other
\* failure); a process that could not be spawned reports 'error' instead
ownExitCodes(c) ==
  IF tool = "missing" THEN {}
  ELSE IF c.help THEN (IF tool = "ok" THEN {0, 1} ELSE {2})
  ELSE {0, 2}

\* the code the 'close' event delivers: a killed process closes with code
\* null, written -1, unless it had already exited when the timer fired
ExitCodes(c) ==
  IF c.killed THEN {-1} \cup ownExitCodes(c) ELSE ownExitCodes(c)

\* the child is the encoder of the standard path: xdelta3 -e -f -s old new
\* patchFile writes the destination patch file itself
writesPatchFile(i) ==
  /\ i = 0
  /\ pc \in {"csp_run", "tsp_run", "tcs_run"}
  /\ children[i].kind = "spawn"
  /\ ~children[i].killed

\* the running encoder opens the destination (-f: an existing file is
\* overwritten) and writes the first part of the patch
EncoderWrites(i) ==
  /\ i \in DOMAIN children
  /\ writesPatchFile(i)
  /\ children[i].st = "running"
  /\ patchOnDisk # "partial"
  /\ patchOnDisk' = "partial"
  /\ UNCHANGED <<callFrame, notices, cacheVars, calls, stack, pc, ret, result, progress, ticks,
                 interval, children, elapsed, chunkVars>>

\* job i of the running batch of chunk jobs ends while a job the loop
\* started before it is still running
overtakes(i) ==
  /\ pc = "cwc_batch"
  /\ \E j \in DOMAIN children : j < i /\ children[j].st = "running"

\* child.on('close'): clears the timer, then resolves or rejects (JS); the
\* TypeScript executeCommand always resolves, with success = (code === 0).
ChildClose(i) ==
  /\ i \in DOMAIN children
  /\ children[i].kind = "spawn"
  /\ children[i].st = "running"
  /\ \E code \in ExitCodes(children[i]) :
       LET c == children[i]
           ok == IF impl = "js" THEN isSuccessJS(code, c.help) ELSE isSuccessTS(code, c.help)
           how == IF impl = "js" THEN (IF ok THEN "resolved" ELSE "rejected") ELSE "resolved"
       IN /\ children' = [children EXCEPT ![i] =
               [c EXCEPT !.st = "closed", !.timer = FALSE,
                         !.settled = Settle(c, how),
                         !.success = IF c.settled = "pending" THEN ok ELSE c.success,
                         !.usage = IF c.settled = "pending" THEN (c.help /\ tool = "ok") ELSE c.usage,
                         !.code = <<code>>]]
          /\ patchOnDisk' = IF writesPatchFile(i) /\ code = 0 THEN "complete" ELSE patchOnDisk
  /\ outOfOrder' = (outOfOrder \/ overtakes(i))
  /\ UNCHANGED <<baseFrame, notices, combined, cacheVars, calls, stack, pc, ret, result, progress,
                 ticks, interval, elapsed, chunkVars>>

\* child.on('error'): the process could not be spawned (the executable is
\* missing).  JS rejects; the TypeScript build resolves with success false.
ChildError(i) ==
  /\ i \in DOMAIN children
  /\ children[i].kind = "spawn"
  /\ children[i].st = "running"
  /\ ~children[i].killed
  /\ tool = "missing"
  /\ LET c == children[i]
         how == IF impl = "js" THEN "rejected" ELSE "resolved"
     IN children' = [children EXCEPT ![i] =
          [c EXCEPT !.st = "closed", !.timer = FALSE, !.settled = Settle(c, how)]]
  /\ UNCHANGED <<opFrame, notices, cacheVars, calls, stack, pc, ret, result, progress, ticks,
                 interval, elapsed, chunkVars>>

\* The configured timeout passes while the process is still running.  With the
\* timer of spawnCommand armed the handler kills the process (SIGKILL) and
\* rejects; without a timer (executeCommand of the TypeScript build) nothing
\* in the program reacts, and the process keeps running.
TimeoutElapses(i) ==
  /\ i \in DOMAIN children
  /\ children[i].kind = "spawn"
  /\ children[i].st = "running"
  /\ i \notin elapsed
  /\ elapsed' = elapsed \cup {i}
  /\ LET c == children[i]
     IN children' = [children EXCEPT ![i] =
          IF c.timer
          THEN [c EXCEPT !.killed = TRUE, !.timer = FALSE, !.settled = Settle(c, "rejected")]
          ELSE c]
  /\ UNCHANGED <<opFrame, notices, cacheVars, calls, stack, pc, ret, result, progress, ticks,
                 interval, chunkVars>>

\* ------------------------------------------------------------ call and return
\* this.emit('error', e): an EventEmitter with no 'error' listener throws.
emitErrorThrows == ~errorListener

\* the innermost function returns v ("ok", "fail") or throws ("throw")
Return(v) ==
  /\ stack' = Tail(stack)
  /\ IF Len(stack) = 1
     THEN /\ pc' = "done"
          /\ result' = v
          /\ ret' = "none"
     ELSE /\ pc' = "ret"
          /\ ret' = v
          /\ UNCHANGED result

Emit(ps) == progress' = progress \o ps

\* _emitError k times in a row: each this.emit('error', e) reaches the
\* listener; with no listener the emit throws and nothing is delivered.
errorNotes(k) == IF errorListener THEN [i \in 1 .. k |-> "error"] ELSE <<>>

\* _emitError / _emitComplete: the events n are delivered to the listeners
Notify(n) == notices' = notices \o n

\* ------------------------------------------------------------- checkXdelta
\* checkXdelta, both builds: the cached positive answer returns at once;
\* otherwise 0% is emitted and the probe starts (JS: spawnCommand -h with a
\* 15 s timeout; TS: fs.pathExists first).
checkXdelta_start ==
  /\ pc = "cx_start"
  /\ IF xdeltaChecked /\ xdeltaAvailable
     THEN /\ Return("ok")
          /\ UNCHANGED <<progress, children>>
     ELSE /\ Emit(<<0>>)
          /\ IF impl = "js"
             THEN /\ children' = (0 :> spawnCommand(TRUE))
                  /\ pc' = "cx_probe"
             ELSE /\ children' = NoChildren
                  /\ pc' = "cx_exists"
          /\ UNCHANGED <<stack, ret, result>>
  /\ UNCHANGED <<opFrame, notices, cacheVars, calls, ticks, interval, elapsed, chunkVars>>

\* JS checkXdelta after the probe: resolved means success (spawnCommand rejects
\* every failure), so the tool is available, 100% is emitted and true returned;
\* a rejection lands in the catch block: 100%, _emitError, throw.
checkXdeltaJS_probed ==
  /\ impl = "js"
  /\ pc = "cx_probe"
  /\ children[0].settled # "pending"
  /\ xdeltaChecked' = TRUE
  /\ xdeltaAvailable' = (children[0].settled = "resolved")
  /\ Emit(<<100>>)
  /\ Return(IF children[0].settled = "resolved" THEN "ok" ELSE "throw")
  /\ Notify(IF children[0].settled = "resolved" THEN <<>> ELSE errorNotes(1))
  /\ UNCHANGED <<opFrame, calls, ticks, interval, children, elapsed, chunkVars>>

\* TS checkXdelta after fs.pathExists: a missing executable emits 100% and
\* throws inside the try, so the outer catch emits 100% again and throws;
\* otherwise the probe `"<path>" -h` starts through executeCommand.
checkXdeltaTS_exists ==
  /\ impl = "ts"
  /\ pc = "cx_exists"
  /\ IF tool = "missing"
     THEN /\ xdeltaChecked' = TRUE
          /\ xdeltaAvailable' = FALSE
          /\ Emit(<<100, 100>>)
          /\ Return("throw")
          /\ UNCHANGED children
     ELSE /\ children' = (0 :> executeCommand(TRUE))
          /\ pc' = "cx_probe"
          /\ UNCHANGED <<cacheVars, stack, ret, result, progress>>
  /\ Notify(IF tool = "missing" THEN errorNotes(2) ELSE <<>>)
  /\ UNCHANGED <<opFrame, calls, ticks, interval, elapsed, chunkVars>>

\* const isWorking = result.success || stdout/stderr mention xdelta or usage
isWorking(c) == c.success \/ c.usage

\* TS checkXdelta after the probe: working emits 100% and returns true; not
\* working emits 100% and throws, the inner catch emits 100% and throws, the
\* outer catch emits 100% and throws.
checkXdeltaTS_probed ==
  /\ impl = "ts"
  /\ pc = "cx_probe"
  /\ children[0].settled # "pending"
  /\ xdeltaChecked' = TRUE
  /\ xdeltaAvailable' = isWorking(children[0])
  /\ IF isWorking(children[0])
     THEN /\ Emit(<<100>>)
          /\ Return("ok")
     ELSE /\ Emit(<<100, 100, 100>>)
          /\ Return("throw")
  /\ Notify(IF isWorking(children[0]) THEN <<>> ELSE errorNotes(3))
  /\ UNCHANGED <<opFrame, calls, ticks, interval, children, elapsed, chunkVars>>

\* ------------------------------------------------------- createPatch (JS)
\* createPatch up to `await FileValidation.validatePatchInputs`: 0% and 10%.
createPatchJS_start ==
  /\ impl = "js"
  /\ pc = "cp_start"
  /\ Emit(<<0, 10>>)
  /\ pc' = "cp_validated"
  /\ UNCHANGED <<opFrame, notices, cacheVars, calls, stack, ret, result, ticks, interval,
                 children, elapsed, chunkVars>>

\* after validation: invalid inputs throw into the catch block; valid inputs
\* emit 20% and call checkXdelta.
createPatchJS_validated ==
  /\ impl = "js"
  /\ pc = "cp_validated"
  /\ IF oldExists /\ otherExists
     THEN /\ Emit(<<20>>)
          /\ stack' = <<"checkXdelta">> \o stack
          /\ pc' = "cx_start"
     ELSE /\ pc' = "cp_catch"
          /\ UNCHANGED <<progress, stack>>
  /\ Notify(IF oldExists /\ otherExists THEN <<>> ELSE errorNotes(1))
  /\ UNCHANGED <<opFrame, cacheVars, calls, ret, result, ticks, interval, children,
                 elapsed, chunkVars>>

\* after `await this.checkXdelta()`: a throw goes to the catch block; otherwise
\* 30%, the two getFileInfo calls, 40%, and the path is chosen: large files go
\* to createPatchWithChunks, the others to _createStandardPatch, which emits
\* 50% and starts the encoder with timeoutMs = options.timeout || 300000.
createPatchJS_checked ==
  /\ impl = "js"
  /\ pc = "ret"
  /\ Head(stack) = "createPatch"
  /\ ret' = "none"
  /\ IF ret = "throw"
     THEN /\ pc' = "cp_catch"
          /\ UNCHANGED <<progress, children, elapsed>>
     ELSE IF isLargeFile
     THEN /\ Emit(<<30, 40>>)
          /\ pc' = "cwc_start"
          /\ UNCHANGED <<children, elapsed>>
     ELSE /\ Emit(<<30, 40, 50>>)
          /\ children' = (0 :> spawnCommand(FALSE))
          /\ elapsed' = {}
          /\ pc' = "csp_run"
  /\ UNCHANGED <<opFrame, notices, cacheVars, calls, stack, result, ticks, interval, chunkVars>>

\* _createStandardPatch after the encoder settled: a rejection propagates to
\* the catch block of createPatch; success emits 80%, and createPatch emits
\* 100%, completes and returns success: true.
createStandardPatchJS_done ==
  /\ impl = "js"
  /\ pc = "csp_run"
  /\ children[0].settled # "pending"
  /\ IF children[0].settled = "resolved"
     THEN /\ Emit(<<80, 100>>)
          /\ Return("ok")
     ELSE /\ pc' = "cp_catch"
          /\ UNCHANGED <<progress, stack, ret, result>>
  /\ Notify(IF children[0].settled = "resolved" THEN <<"complete">> ELSE <<>>)
  /\ UNCHANGED <<opFrame, cacheVars, calls, ticks, interval, children, elapsed, chunkVars>>

\* the value a catch block ends with after _emitError: the failure value is
\* returned, unless the emit itself throws out of the catch block
afterEmitError == IF emitErrorThrows THEN "throw" ELSE "fail"

\* catch (error) of createPatch: 100% with success: false, _emitError, and
\* the failure value.
createPatchJS_catch ==
  /\ impl = "js"
  /\ pc = "cp_catch"
  /\ Emit(<<100>>)
  /\ Return(afterEmitError)
  /\ Notify(errorNotes(1))
  /\ UNCHANGED <<opFrame, cacheVars, calls, ticks, interval, children, elapsed, chunkVars>>

\* ------------------------------------------------ createPatchWithChunks (JS)
Max(a, b) == IF a >= b THEN a ELSE b
Min(a, b) == IF a <= b THEN a ELSE b

chunkJobEncodesAll(k) == spawnCommand(FALSE)

\* the job the batch loop starts for chunkIndex k: the encoder when both files
\* have chunk k, fs.copy when only the new file has it, an already resolved
\* promise when only the old file has it
chunkJob(k) ==
  IF k < nOld /\ k < nNew THEN spawnCommand(FALSE)
  ELSE IF k < nNew
  THEN [kind |-> "copy", st |-> "running", settled |-> "pending", success |-> FALSE,
        timer |-> FALSE, killed |-> FALSE, help |-> FALSE, usage |-> FALSE,
        code |-> <<>>]
  ELSE [kind |-> "none", st |-> "closed", settled |-> "resolved", success |-> TRUE,
        timer |-> FALSE, killed |-> FALSE, help |-> FALSE, usage |-> FALSE,
        code |-> <<>>]

batchJobsUncapped(i) ==
  [k \in i .. (Max(nOld, nNew) - 1) |-> chunkJob(k)]

\* for (j = 0; j < maxParallelChunks && i + j < max(old, new); j++)
batchJobs(i) ==
  [k \in i .. (Min(i + maxParallelChunks, Max(nOld, nNew)) - 1) |-> chunkJob(k)]

\* the record a resolved job contributes to patchChunks
chunkRecord(k) ==
  [index |-> k,
   type |-> IF k < nOld /\ k < nNew THEN "patch_chunk"
            ELSE IF k < nNew THEN "new_chunk" ELSE "removed_chunk"]

RECURSIVE recordsOfReversed(_, _)
recordsOfReversed(lo, hi) ==
  IF lo > hi THEN <<>> ELSE recordsOfReversed(lo + 1, hi) \o <<chunkRecord(lo)>>

RECURSIVE recordsOf(_, _)
recordsOf(lo, hi) == IF lo > hi THEN <<>> ELSE <<chunkRecord(lo)>> \o recordsOf(lo + 1, hi)

\* createPatchWithChunks up to the first `await Promise.all(chunkPromises)`:
\* temp_chunks is created, both files are split, the first batch is started.
createPatchWithChunks_start ==
  /\ pc = "cwc_start"
  /\ tempDir' = TRUE
  /\ batchStart' = 0
  /\ patchChunks' = <<>>
  /\ children' = batchJobs(0)
  /\ elapsed' = {}
  /\ pc' = "cwc_batch"
  /\ outOfOrder' = FALSE
  /\ UNCHANGED <<baseFrame, notices, patchOnDisk, combined, cacheVars, calls, stack, ret, result, progress,
                 ticks, interval, chunkResult>>

\* fs.copy of a new-only chunk ends: it resolves or it rejects
ChunkCopyEnds(i, ok) ==
  /\ i \in DOMAIN children
  /\ children[i].kind = "copy"
  /\ children[i].st = "running"
  /\ children' = [children EXCEPT ![i] =
       [@ EXCEPT !.st = "closed", !.settled = IF ok THEN "resolved" ELSE "rejected",
                 !.success = ok]]
  /\ outOfOrder' = (outOfOrder \/ overtakes(i))
  /\ UNCHANGED <<baseFrame, notices, patchOnDisk, combined, cacheVars, calls, stack, pc, ret, result,
                 progress, ticks, interval, elapsed, chunkVars>>

\* combinePatchChunks: a patch_chunk or new_chunk record is copied into the
\* output with pipeline(readStream, writeStream), which ends writeStream when
\* the chunk has been read.
isPiped(rec) == rec.type \in {"patch_chunk", "new_chunk"}

\* the records of the list that reach the combined file: those up to the
\* first piped one; the stream is ended after it
RECURSIVE writtenRecords(_)
writtenRecords(recs) ==
  IF recs = <<>> THEN <<>>
  ELSE IF isPiped(Head(recs)) THEN <<Head(recs)>>
  ELSE <<Head(recs)>> \o writtenRecords(Tail(recs))

\* how combinePatchChunks ends: with at most one piped record it resolves; a
\* later pipeline into the ended stream rejects or resolves with its data
\* dropped, depending on the Node.js release
combineOutcomes(recs) ==
  IF Cardinality({i \in DOMAIN recs : isPiped(recs[i])}) <= 1 THEN {"ok"} ELSE {"ok", "fail"}

\* Promise.all settled: it rejects with the first rejection (the other jobs of
\* the batch keep running) and resolves when every job resolved
anyRejected == \E i \in DOMAIN children : children[i].settled = "rejected"
allResolved == \A i \in DOMAIN children : children[i].settled = "resolved"

\* after `await Promise.all(chunkPromises)`: a rejection is caught by the
\* catch block of createPatchWithChunks, which returns {success: false};
\* otherwise the records are kept and the next batch starts, or, after the
\* last batch, the chunks are combined, moved to patchFile, temp_chunks is
\* removed and {success: true} is returned; when combining throws, the catch
\* block returns {success: false} and temp_chunks stays.
createPatchWithChunks_batchDone ==
  /\ pc = "cwc_batch"
  /\ anyRejected \/ allResolved
  /\ IF anyRejected
     THEN /\ chunkResult' = "fail"
          /\ pc' = "cp_chunks"
          /\ UNCHANGED <<batchStart, patchChunks, tempDir, children, elapsed, patchOnDisk,
                         combined>>
     ELSE LET hi == Min(batchStart + maxParallelChunks, Max(nOld, nNew)) - 1
          IN /\ patchChunks' = patchChunks \o recordsOf(batchStart, hi)
             /\ IF batchStart + maxParallelChunks < Max(nOld, nNew)
                THEN /\ batchStart' = batchStart + maxParallelChunks
                     /\ children' = batchJobs(batchStart + maxParallelChunks)
                     /\ elapsed' = {}
                     /\ UNCHANGED <<pc, chunkResult, tempDir, patchOnDisk, combined>>
                ELSE /\ \E c \in combineOutcomes(patchChunks \o recordsOf(batchStart, hi)) :
                          /\ chunkResult' = c
                          /\ tempDir' = (c = "fail")
                          /\ patchOnDisk' = IF c = "ok" THEN "complete" ELSE patchOnDisk
                          /\ combined' = writtenRecords(patchChunks \o recordsOf(batchStart, hi))
                     /\ pc' = "cp_chunks"
                     /\ UNCHANGED <<batchStart, children, elapsed>>
  /\ UNCHANGED <<baseFrame, notices, outOfOrder, cacheVars, calls, stack, ret, result, progress, ticks,
                 interval>>

\* what createPatch makes of the object createPatchWithChunks returned: it
\* reads result.patchSize and result.compressionRatio and never result.success
chunkedOutcome(r) == "ok"

\* createPatch after `result = await this.createPatchWithChunks(...)`: builds
\* finalResult with success: true, emits 100%, completes and returns it.
createPatchJS_chunksReturned ==
  /\ impl = "js"
  /\ pc = "cp_chunks"
  /\ Emit(<<100>>)
  /\ Return(chunkedOutcome(chunkResult))
  /\ Notify(<<"complete">>)
  /\ UNCHANGED <<opFrame, cacheVars, calls, ticks, interval, children, elapsed, chunkVars>>

\* ------------------------------------------------------- createPatch (TS)
\* createPatch up to `await this.checkXdelta()`: 0% and 10%.
createPatchTS_start ==
  /\ impl = "ts"
  /\ pc = "cp_start"
  /\ Emit(<<0, 10>>)
  /\ stack' = <<"checkXdelta">> \o stack
  /\ pc' = "cx_start"
  /\ UNCHANGED <<opFrame, notices, cacheVars, calls, ret, result, ticks, interval, children,
                 elapsed, chunkVars>>

\* after checkXdelta: a throw goes to the catch block; otherwise 20%, the two
\* getFileInfo calls (a missing file throws), 30%, and the path is chosen:
\* large files go through createPatchWithChunks to _createStandardPatch (70%),
\* the others to _createStandardPatchWithProgress, which sets the 100 ms
\* interval; both start the encoder with executeCommand.
createPatchTS_checked ==
  /\ impl = "ts"
  /\ pc = "ret"
  /\ Head(stack) = "createPatch"
  /\ ret' = "none"
  /\ IF ret = "throw"
     THEN /\ pc' = "cp_catch"
          /\ UNCHANGED <<progress, children, elapsed, interval>>
     ELSE IF ~(oldExists /\ otherExists)
     THEN /\ Emit(<<20>>)
          /\ pc' = "cp_catch"
          /\ UNCHANGED <<children, elapsed, interval>>
     ELSE IF isLargeFile
     THEN /\ Emit(<<20, 30, 70>>)
          /\ children' = (0 :> executeCommand(FALSE))
          /\ elapsed' = {}
          /\ pc' = "tcs_run"
          /\ UNCHANGED interval
     ELSE /\ Emit(<<20, 30>>)
          /\ children' = (0 :> executeCommand(FALSE))
          /\ elapsed' = {}
          /\ interval' = TRUE
          /\ pc' = "tsp_run"
  /\ UNCHANGED <<opFrame, notices, cacheVars, calls, stack, result, ticks, chunkVars>>

\* Math.round(Math.min(90, 30 + progress * 0.6)) for progress = r / 100,
\* computed in thousandths
createPercentage(r) == (Min(90000, 30000 + 6 * r) + 500) \div 1000

\* Math.random() * 0.8 + 0.1, in hundredths
createRandomProgress == 10 .. 89

\* the interval of _createStandardPatchWithProgress fires while the encoder
\* runs: progressCallback(randomProgress)
createPatchTS_tick ==
  /\ impl = "ts"
  /\ pc = "tsp_run"
  /\ interval
  /\ children[0].settled = "pending"
  /\ ticks < MaxTicks
  /\ ticks' = ticks + 1
  /\ \E r \in createRandomProgress : Emit(<<createPercentage(r)>>)
  /\ UNCHANGED <<opFrame, notices, cacheVars, calls, stack, pc, ret, result, interval, children,
                 elapsed, chunkVars>>

\* _createStandardPatchWithProgress after the encoder settled: failure throws
\* (the finally clears the interval); success clears the interval, calls
\* progressCallback(1.0), and createPatch emits 100% and returns the result.
createStandardPatchWithProgress_done ==
  /\ impl = "ts"
  /\ pc = "tsp_run"
  /\ children[0].settled # "pending"
  /\ interval' = FALSE
  /\ IF children[0].success
     THEN /\ Emit(<<createPercentage(100), 100>>)
          /\ Return("ok")
     ELSE /\ pc' = "cp_catch"
          /\ UNCHANGED <<progress, stack, ret, result>>
  /\ Notify(IF children[0].success THEN <<"complete">> ELSE <<>>)
  /\ UNCHANGED <<opFrame, cacheVars, calls, ticks, children, elapsed, chunkVars>>

\* _createStandardPatch (TS) after the encoder settled: failure throws;
\* success emits 80%, and createPatch emits 100% and returns the result.
createStandardPatchTS_done ==
  /\ impl = "ts"
  /\ pc = "tcs_run"
  /\ children[0].settled # "pending"
  /\ IF children[0].success
     THEN /\ Emit(<<80, 100>>)
          /\ Return("ok")
     ELSE /\ pc' = "cp_catch"
          /\ UNCHANGED <<progress, stack, ret, result>>
  /\ Notify(IF children[0].success THEN <<"complete">> ELSE <<>>)
  /\ UNCHANGED <<opFrame, cacheVars, calls, ticks, interval, children, elapsed, chunkVars>>

\* catch (error) of createPatch (TS): _emitErrorWithOptions and the failure
\* value; no progress is emitted.
createPatchTS_catch ==
  /\ impl = "ts"
  /\ pc = "cp_catch"
  /\ Return(afterEmitError)
  /\ Notify(errorNotes(1))
  /\ UNCHANGED <<opFrame, cacheVars, calls, progress, ticks, interval, children,
                 elapsed, chunkVars>>

\* -------------------------------------------------------- applyPatch (JS)
\* applyPatch up to `await FileValidation.validateApplyInputs`: 0% and 10%.
applyPatchJS_start ==
  /\ impl = "js"
  /\ pc = "ap_start"
  /\ Emit(<<0, 10>>)
  /\ pc' = "ap_validated"
  /\ UNCHANGED <<opFrame, notices, cacheVars, calls, stack, ret, result, ticks, interval,
                 children, elapsed, chunkVars>>

\* after validation: invalid inputs throw; valid inputs emit 20% and call
\* checkXdelta.
applyPatchJS_validated ==
  /\ impl = "js"
  /\ pc = "ap_validated"
  /\ IF oldExists /\ otherExists
     THEN /\ Emit(<<20>>)
          /\ stack' = <<"checkXdelta">> \o stack
          /\ pc' = "cx_start"
     ELSE /\ pc' = "ap_catch"
          /\ UNCHANGED <<progress, stack>>
  /\ Notify(IF oldExists /\ otherExists THEN <<>> ELSE errorNotes(1))
  /\ UNCHANGED <<opFrame, cacheVars, calls, ret, result, ticks, interval, children,
                 elapsed, chunkVars>>

\* after checkXdelta: a throw goes to the catch block; otherwise 30%, the
\* getFileInfo calls, 50%, and the decoder starts with
\* timeoutMs = mergedOptions.timeout || 300000.
applyPatchJS_checked ==
  /\ impl = "js"
  /\ pc = "ret"
  /\ Head(stack) = "applyPatch"
  /\ ret' = "none"
  /\ IF ret = "throw"
     THEN /\ pc' = "ap_catch"
          /\ UNCHANGED <<progress, children, elapsed>>
     ELSE /\ Emit(<<30, 50>>)
          /\ children' = (0 :> spawnCommand(FALSE))
          /\ elapsed' = {}
          /\ pc' = "ap_run"
  /\ UNCHANGED <<opFrame, notices, cacheVars, calls, stack, result, ticks, interval, chunkVars>>

\* after the decoder settled: a rejection goes to the catch block; success
\* emits 80% and 100%, completes and returns success: true.
applyPatchJS_done ==
  /\ impl = "js"
  /\ pc = "ap_run"
  /\ children[0].settled # "pending"
  /\ IF children[0].settled = "resolved"
     THEN /\ Emit(<<80, 100>>)
          /\ Return("ok")
     ELSE /\ pc' = "ap_catch"
          /\ UNCHANGED <<progress, stack, ret, result>>
  /\ Notify(IF children[0].settled = "resolved" THEN <<"complete">> ELSE <<>>)
  /\ UNCHANGED <<opFrame, cacheVars, calls, ticks, interval, children, elapsed, chunkVars>>

\* catch (error) of applyPatch: 100% with success: false, _emitError, and the
\* failure value.
applyPatchJS_catch ==
  /\ impl = "js"
  /\ pc = "ap_catch"
  /\ Emit(<<100>>)
  /\ Return(afterEmitError)
  /\ Notify(errorNotes(1))
  /\ UNCHANGED <<opFrame, cacheVars, calls, ticks, interval, children, elapsed, chunkVars>>

\* -------------------------------------------------------- applyPatch (TS)
\* applyPatch up to `await this.checkXdelta()`: 0% and 15%.
applyPatchTS_start ==
  /\ impl = "ts"
  /\ pc = "ap_start"
  /\ Emit(<<0, 15>>)
  /\ stack' = <<"checkXdelta">> \o stack
  /\ pc' = "cx_start"
  /\ UNCHANGED <<opFrame, notices, cacheVars, calls, ret, result, ticks, interval, children,
                 elapsed, chunkVars>>

\* after checkXdelta: a throw goes to the catch block; otherwise 25%, the
\* getFileInfo calls (a missing file throws), 40%, the 200 ms interval is set
\* and the decoder starts with executeCommand.
applyPatchTS_checked ==
  /\ impl = "ts"
  /\ pc = "ret"
  /\ Head(stack) = "applyPatch"
  /\ ret' = "none"
  /\ IF ret = "throw"
     THEN /\ pc' = "ap_catch"
          /\ UNCHANGED <<progress, children, elapsed, interval>>
     ELSE IF ~(oldExists /\ otherExists)
     THEN /\ Emit(<<25>>)
          /\ pc' = "ap_catch"
          /\ UNCHANGED <<children, elapsed, interval>>
     ELSE /\ Emit(<<25, 40>>)
          /\ children' = (0 :> executeCommand(FALSE))
          /\ elapsed' = {}
          /\ interval' = TRUE
          /\ pc' = "ap_run"
  /\ UNCHANGED <<opFrame, notices, cacheVars, calls, stack, result, ticks, chunkVars>>

\* Math.round(Math.min(80, 40 + randomProgress * 0.4)) for
\* randomProgress = r / 100, computed in thousandths
applyPercentage(r) == (Min(80000, 40000 + 4 * r) + 500) \div 1000

\* Math.random() * 0.4 + 0.4, in hundredths
applyRandomProgress == 40 .. 79

\* the interval of applyPatch fires while the decoder runs
applyPatchTS_tick ==
  /\ impl = "ts"
  /\ pc = "ap_run"
  /\ interval
  /\ children[0].settled = "pending"
  /\ ticks < MaxTicks
  /\ ticks' = ticks + 1
  /\ \E r \in applyRandomProgress : Emit(<<applyPercentage(r)>>)
  /\ UNCHANGED <<opFrame, notices, cacheVars, calls, stack, pc, ret, result, interval, children,
                 elapsed, chunkVars>>

\* after the decoder settled: failure throws (the finally clears the interval);
\* success clears the interval, emits 85% and 100%, completes and returns.
applyPatchTS_done ==
  /\ impl = "ts"
  /\ pc = "ap_run"
  /\ children[0].settled # "pending"
  /\ interval' = FALSE
  /\ IF children[0].success
     THEN /\ Emit(<<85, 100>>)
          /\ Return("ok")
     ELSE /\ pc' = "ap_catch"
          /\ UNCHANGED <<progress, stack, ret, result>>
  /\ Notify(IF children[0].success THEN <<"complete">> ELSE <<>>)
  /\ UNCHANGED <<opFrame, cacheVars, calls, ticks, children, elapsed, chunkVars>>

\* catch (error) of applyPatch (TS): _emitErrorWithOptions and the failure
\* value; no progress is emitted.
applyPatchTS_catch ==
  /\ impl = "ts"
  /\ pc = "ap_catch"
  /\ Return(afterEmitError)
  /\ Notify(errorNotes(1))
  /\ UNCHANGED <<opFrame, cacheVars, calls, progress, ticks, interval, children,
                 elapsed, chunkVars>>

\* ------------------------------------------------------------- verifyPatch
\* verifyPatch (JS): 0%, 10%, then FileValidation.validateVerifyInputs, which
\* fileValidation.js does not define: the call throws a TypeError inside the
\* try, and the catch block emits 100%, emits the error and rethrows.
verifyPatchJS ==
  /\ impl = "js"
  /\ pc = "vp_start"
  /\ Emit(<<0, 10, 100>>)
  /\ Return("throw")
  /\ Notify(errorNotes(1))
  /\ UNCHANGED <<opFrame, cacheVars, calls, ticks, interval, children, elapsed, chunkVars>>

\* verifyPatch (TS) up to `await this.applyPatch(oldFile, patchFile, tempFile)`.
verifyPatchTS_start ==
  /\ impl = "ts"
  /\ pc = "vp_start"
  /\ stack' = <<"applyPatch">> \o stack
  /\ pc' = "ap_start"
  /\ UNCHANGED <<opFrame, notices, cacheVars, calls, ret, result, progress, ticks, interval,
                 children, elapsed, chunkVars>>

\* after applyPatch: a failure (or a rejection) is caught and {isValid: false}
\* returned; otherwise isValid is the equality of the two file sizes.
verifyPatchTS_applied ==
  /\ impl = "ts"
  /\ pc = "ret"
  /\ Head(stack) = "verifyPatch"
  /\ IF ret = "ok"
     THEN \E sameSize \in BOOLEAN : Return(IF sameSize THEN "ok" ELSE "fail")
     ELSE Return("fail")
  /\ UNCHANGED <<opFrame, notices, cacheVars, calls, progress, ticks, interval, children,
                 elapsed, chunkVars>>

\* ---------------------------------------------------------- the instance
\* where each public method starts
startOf(c) ==
  CASE c = "createPatch" -> "cp_start"
    [] c = "applyPatch" -> "ap_start"
    [] c = "verifyPatch" -> "vp_start"
    [] c = "checkXdelta" -> "cx_start"

\* the caller invokes a public method of the instance; the previous call, if
\* any, has returned.  What a call left behind (the cache of checkXdelta, the
\* temp_chunks directory) stays.
StartCall(c) ==
  /\ pc \in {"idle", "done"}
  /\ calls < MaxCalls
  /\ calls' = calls + 1
  /\ method' = c
  /\ stack' = <<c>>
  /\ pc' = startOf(c)
  /\ ret' = "none"
  /\ result' = "none"
  /\ progress' = <<>>
  /\ ticks' = 0
  /\ interval' = FALSE
  /\ children' = NoChildren
  /\ elapsed' = {}
  /\ chunkResult' = "none"
  /\ batchStart' = 0
  /\ patchChunks' = <<>>
  /\ outOfOrder' = FALSE
  /\ notices' = <<>>
  /\ UNCHANGED <<envVars, batchVars, rtVars, planVars, auxVars, cacheVars, tempDir, patchOnDisk,
                 combined>>

\* new AdvancedPatchGenerator(options): nothing checked, nothing running.  The
\* files and the tool are what the caller's machine holds.
OpIdle ==
  /\ xdeltaChecked = FALSE
  /\ xdeltaAvailable = FALSE
  /\ calls = 0
  /\ method = "none"
  /\ stack = <<>>
  /\ pc = "idle"
  /\ ret = "none"
  /\ result = "none"
  /\ progress = <<>>
  /\ ticks = 0
  /\ interval = FALSE
  /\ children = NoChildren
  /\ elapsed = {}
  /\ chunkResult = "none"
  /\ batchStart = 0
  /\ patchChunks = <<>>
  /\ tempDir = FALSE
  /\ patchOnDisk = "absent"
  /\ combined = <<>>
  /\ outOfOrder = FALSE
  /\ notices = <<>>

\* the environment of a single call: the build, the state of the xdelta
\* executable, which input files exist, whether an 'error' listener is
\* registered, and the size class and chunk counts of the inputs
InitOp ==
  /\ impl \in Impls
  /\ tool \in {"ok", "missing", "broken"}
  /\ oldExists \in BOOLEAN
  /\ otherExists \in BOOLEAN
  /\ errorListener \in BOOLEAN
  /\ isLargeFile \in (IF oldExists /\ otherExists THEN BOOLEAN ELSE {FALSE})
  /\ nOld \in (IF isLargeFile /\ impl = "js" THEN 0 .. MaxChunks ELSE {0})
  /\ nNew \in (IF isLargeFile /\ impl = "js" THEN 0 .. MaxChunks ELSE {0})
  /\ isLargeFile /\ impl = "js" => nOld + nNew > 0
  /\ OpIdle

\* the batch scheduler at rest
IdleBatch ==
  /\ bKind = "create"
  /\ nFiles = 0
  /\ hasOld = {}
  /\ optMaxParallel = 0
  /\ skipUnchanged = FALSE
  /\ bpc = "init"
  /\ queue = <<>>
  /\ running = <<>>
  /\ awaited = {}
  /\ task = <<>>
  /\ outcome = <<>>
  /\ patches = <<>>
  /\ returned = <<>>

\* no create -> apply -> verify run
IdleRoundTrip ==
  /\ oldBytes = <<>>
  /\ newBytes = <<>>
  /\ chunkSize = 1
  /\ threshold = 0
  /\ rpc = "init"
  /\ patchFile = <<>>
  /\ outBytes = <<>>
  /\ createRes = "none"
  /\ applyRes = "none"
  /\ verifyRes = "none"

\* no chunk planning
IdlePlan ==
  /\ plSize = 0
  /\ plChunk = 1
  /\ plOverlap = 0
  /\ plState = "idle"
  /\ plStart = 0
  /\ plIndex = 0
  /\ plPos = 0
  /\ plRead = 0
  /\ plChunks = <<>>
  /\ plRaced = FALSE

\* no profile chosen
IdleProfile ==
  /\ szOld = 0
  /\ szNew = 0
  /\ prState = "idle"
  /\ prOld = "none"
  /\ prNew = "none"
  /\ prRequested = 0
  /\ prChunked = FALSE
  /\ prLevel = 0

\* no chunked create running
IdleTemp ==
  /\ tSameDir = FALSE
  /\ tpc = <<"idle", "idle">>
  /\ tDir = <<FALSE, FALSE>>
  /\ tFiles = <<>>
  /\ tEvents = {}

IdleAux == IdleProfile /\ IdleTemp

Init == InitOp /\ IdleBatch /\ IdleRoundTrip /\ IdlePlan /\ IdleAux

Next ==
  \/ \E c \in Calls : StartCall(c)
  \/ checkXdelta_start
  \/ checkXdeltaJS_probed
  \/ checkXdeltaTS_exists
  \/ checkXdeltaTS_probed
  \/ createPatchJS_start
  \/ createPatchJS_validated
  \/ createPatchJS_checked
  \/ createStandardPatchJS_done
  \/ createPatchJS_catch
  \/ createPatchWithChunks_start
  \/ createPatchWithChunks_batchDone
  \/ createPatchJS_chunksReturned
  \/ createPatchTS_start
  \/ createPatchTS_checked
  \/ createPatchTS_tick
  \/ createStandardPatchWithProgress_done
  \/ createStandardPatchTS_done
  \/ createPatchTS_catch
  \/ applyPatchJS_start
  \/ applyPatchJS_validated
  \/ applyPatchJS_checked
  \/ applyPatchJS_done
  \/ applyPatchJS_catch
  \/ applyPatchTS_start
  \/ applyPatchTS_checked
  \/ applyPatchTS_tick
  \/ applyPatchTS_done
  \/ applyPatchTS_catch
  \/ verifyPatchJS
  \/ verifyPatchTS_start
  \/ verifyPatchTS_applied
  \/ \E i \in DOMAIN children : EncoderWrites(i)
  \/ \E i \in DOMAIN children : ChildClose(i)
  \/ \E i \in DOMAIN children : ChildError(i)
  \/ \E i \in DOMAIN children : TimeoutElapses(i)
  \/ \E i \in DOMAIN children, ok \in BOOLEAN : ChunkCopyEnds(i, ok)

Spec == Init /\ [][Next]_vars

\* ---------------------------------------- createBatchPatches / applyBatchPatches
MaxFiles == 4          \* files in the directory the batch reads
MaxOption == 2         \* largest options.maxParallel passed (0: not passed)

\* const maxParallel = Math.max(1, Math.min(4, options.maxParallel || 4))
maxParallel == Max(1, Min(4, IF optMaxParallel = 0 THEN 4 ELSE optMaxParallel))

\* runNext(): nothing when the queue is empty; otherwise the head of the queue
\* is started and pushed on running, and runNext() is called again while
\* running.length < maxParallel.  The result is the queue and running arrays
\* after the call.
RECURSIVE runNext(_, _)
runNext(q, r) ==
  IF q = <<>> THEN [queue |-> q, running |-> r]
  ELSE LET r2 == Append(r, Head(q))
       IN IF Len(r2) < maxParallel
          THEN runNext(Tail(q), r2)
          ELSE [queue |-> Tail(q), running |-> r2]

\* for (let i = 0; i < maxParallel; i++) runNext()
RECURSIVE startLoop(_, _, _)
startLoop(i, q, r) ==
  IF i >= maxParallel THEN [queue |-> q, running |-> r]
  ELSE LET n == runNext(q, r) IN startLoop(i + 1, n.queue, n.running)

Range(seq) == {seq[i] : i \in DOMAIN seq}

\* running.splice(running.indexOf(taskPromise), 1)
spliceOut(r, f) ==
  LET at == CHOOSE i \in DOMAIN r : r[i] = f /\ \A j \in 1 .. (i - 1) : r[j] # f
  IN SubSeq(r, 1, at - 1) \o SubSeq(r, at + 1, Len(r))

\* the tasks runNext started: they wait for FileValidation.fileExists
started(tk, r) == [f \in DOMAIN tk |-> IF tk[f] = "queued" /\ f \in Range(r) THEN "exists" ELSE tk[f]]

\* what `await Promise.all(allPromises)` waits for: the promises the array
\* holds when Promise.all is called
promiseAll(all) == all

\* the batch call up to `await Promise.all(allPromises)`: the queue is a copy
\* of the directory listing, the start loop runs, and Promise.all takes the
\* promises pushed so far.  With an empty directory it returns at once.  The
\* TypeScript build's batch methods are stubs that return [].
BatchStart ==
  /\ bpc = "init"
  /\ IF impl = "ts"
     THEN /\ bpc' = "returned"
          /\ returned' = <<>>
          /\ UNCHANGED <<queue, running, awaited, task>>
     ELSE LET all == [i \in 1 .. nFiles |-> i]
              n == startLoop(0, all, <<>>)
          IN /\ queue' = n.queue
             /\ running' = n.running
             /\ task' = started(task, n.running)
             /\ awaited' = promiseAll(Range(n.running))
             /\ bpc' = IF n.running = <<>> THEN "returned" ELSE "awaiting"
             /\ returned' = <<>>
  /\ UNCHANGED <<batchFrame, batchEnv, outcome, patches>>

\* a task ends with the record rec (or none) pushed: its finally callback
\* takes it out of running and calls runNext(); when it was the last promise
\* Promise.all waited for, the batch call returns the array as it is then
Finish(f, recs) ==
  LET n == runNext(queue, spliceOut(running, f))
      tk == [started(task, n.running) EXCEPT ![f] = "finished"]
  IN /\ patches' = patches \o recs
     /\ queue' = n.queue
     /\ running' = n.running
     /\ task' = tk
     /\ IF bpc = "awaiting" /\ \A g \in awaited : tk[g] = "finished"
        THEN /\ bpc' = "returned"
             /\ returned' = patches \o recs
        ELSE UNCHANGED <<bpc, returned>>
     /\ UNCHANGED awaited

\* the task after `await FileValidation.fileExists(oldPath)`: without the
\* counterpart the pair is recorded as skipped; with it, createBatchPatches
\* with skipUnchanged compares the two files first, and otherwise the
\* createPatch / applyPatch call starts
TaskFileExists(f) ==
  /\ f \in DOMAIN task
  /\ task[f] = "exists"
  /\ IF f \notin hasOld
     THEN /\ Finish(f, <<[file |-> f, status |-> "skipped"]>>)
          /\ UNCHANGED outcome
     ELSE /\ task' = [task EXCEPT ![f] =
               IF bKind = "create" /\ skipUnchanged THEN "comparing" ELSE "op"]
          /\ UNCHANGED <<bpc, queue, running, awaited, outcome, patches, returned>>
  /\ UNCHANGED <<batchFrame, batchEnv>>

\* createBatchPatches with skipUnchanged, after the comparison: equal files
\* are recorded as skipped, others go on to createPatch
TaskCompared(f, equal) ==
  /\ f \in DOMAIN task
  /\ task[f] = "comparing"
  /\ IF equal
     THEN /\ Finish(f, <<[file |-> f, status |-> "skipped"]>>)
     ELSE /\ task' = [task EXCEPT ![f] = "op"]
          /\ UNCHANGED <<bpc, queue, running, awaited, patches, returned>>
  /\ UNCHANGED <<batchFrame, batchEnv, outcome>>

\* how a createPatch / applyPatch call can end: success, or the failure value,
\* or a rejection when emitting the error throws
opOutcomes == {"ok", afterEmitError}

\* the status the task records after `await this.createPatch(...)`: 'success'
\* when the call returned, 'error' when it threw; the returned object is not
\* looked at
statusOf(o) == IF o = "throw" THEN "error" ELSE "success"

\* the task after its createPatch / applyPatch call ended with o
TaskOpEnds(f, o) ==
  /\ f \in DOMAIN task
  /\ task[f] = "op"
  /\ outcome' = [outcome EXCEPT ![f] = o]
  /\ Finish(f, <<[file |-> f, status |-> statusOf(o)]>>)
  /\ UNCHANGED <<batchFrame, batchEnv>>

\* a batch call on a fresh generator: any directory content up to MaxFiles
\* files, any set of them with a counterpart, any options
InitBatch ==
  /\ impl \in Impls
  /\ errorListener \in BOOLEAN
  /\ tool = "ok"
  /\ oldExists = TRUE
  /\ otherExists = TRUE
  /\ isLargeFile = FALSE
  /\ nOld = 0
  /\ nNew = 0
  /\ OpIdle
  /\ IdleRoundTrip
  /\ IdlePlan
  /\ IdleAux
  /\ bKind \in {"create", "apply"}
  /\ nFiles \in 0 .. MaxFiles
  /\ hasOld \in SUBSET (1 .. nFiles)
  /\ optMaxParallel \in 0 .. MaxOption
  /\ skipUnchanged \in (IF bKind = "create" THEN BOOLEAN ELSE {FALSE})
  /\ bpc = "init"
  /\ queue = <<>>
  /\ running = <<>>
  /\ awaited = {}
  /\ task = [f \in 1 .. nFiles |-> "queued"]
  /\ outcome = [f \in 1 .. nFiles |-> "none"]
  /\ patches = <<>>
  /\ returned = <<>>

NextBatch ==
  \/ BatchStart
  \/ \E f \in DOMAIN task : TaskFileExists(f)
  \/ \E f \in DOMAIN task, equal \in BOOLEAN : TaskCompared(f, equal)
  \/ \E f \in DOMAIN task, o \in opOutcomes : TaskOpEnds(f, o)

SpecBatch == InitBatch /\ [][NextBatch]_vars

\* ----------------------------------------- a create -> apply -> verify run
MaxLen == 3            \* bytes in the old / in the new file
MaxChunkSize == 2      \* largest maxChunkSize configured
Bytes == 0 .. 1
Contents == UNION {[1 .. n -> Bytes] : n \in 0 .. MaxLen}

\* a file that does not exist
NoPatch == <<[type |-> "absent", index |-> 0, src |-> <<>>, tgt |-> <<>>, literal |-> FALSE]>>
NoFile == <<-1>>

\* LargeFileUtils.createFileChunks(filePath, outputDir, chunkSize): the number
\* of chunks recorded, and the bytes written to chunk_<k>.bin
chunkCount(bytes, cs) == (Len(bytes) + cs - 1) \div cs
createFileChunks(bytes, cs, k) == SubSeq(bytes, k * cs + 1, Min((k + 1) * cs, Len(bytes)))

\* temp_chunks/chunk_<k>.bin when the encoders start: the old file was split
\* into the directory first and the new file second, under the same names
chunkFileAt(k) ==
  IF k < chunkCount(newBytes, chunkSize)
  THEN createFileChunks(newBytes, chunkSize, k)
  ELSE createFileChunks(oldBytes, chunkSize, k)

\* xdelta3 -e -s <src> <tgt> <patch>: a VCDIFF patch of tgt against src; it is
\* literal when the encoder put the target's bytes in it and no copy from src
Encode(src, tgt, literal) ==
  [type |-> "patch_chunk", index |-> 0, src |-> src, tgt |-> tgt, literal |-> literal]

\* xdelta3 -d -s <src> <patch> <out>: the input must be one VCDIFF patch; its
\* copies are taken from src and the result is checked against the checksum
\* of the encoded target
Decode(src, file) ==
  IF /\ Len(file) = 1
     /\ file[1].type = "patch_chunk"
     /\ file[1].literal \/ file[1].src = src
  THEN [ok |-> TRUE, bytes |-> file[1].tgt]
  ELSE [ok |-> FALSE, bytes |-> <<>>]

\* the record the job of chunkIndex k resolves with and the file it names:
\* both chunk paths of an encoder job are temp_chunks/chunk_<k>.bin
chunkPatch(k, literal) ==
  LET nO == chunkCount(oldBytes, chunkSize)
      nN == chunkCount(newBytes, chunkSize)
  IN IF k < nO /\ k < nN
     THEN [Encode(chunkFileAt(k), chunkFileAt(k), literal) EXCEPT !.index = k]
     ELSE IF k < nN
     THEN [type |-> "new_chunk", index |-> k, src |-> <<>>, tgt |-> chunkFileAt(k),
           literal |-> TRUE]
     ELSE [type |-> "removed_chunk", index |-> k, src |-> <<>>, tgt |-> <<>>,
           literal |-> FALSE]

\* const isLargeFile = oldFileInfo.size > threshold || newFileInfo.size > threshold
isLarge(old, new) == Len(old) > threshold \/ Len(new) > threshold

\* createPatch(old, new, patch): the JavaScript build takes large files through
\* createPatchWithChunks, whose combined file is moved to the patch path when
\* combining resolved; every other case runs one encoder on the two files.
RT_createPatch ==
  /\ rpc = "init"
  /\ rpc' = "created"
  /\ \E literal \in BOOLEAN :
       IF impl = "js" /\ isLarge(oldBytes, newBytes)
       THEN LET n == Max(chunkCount(oldBytes, chunkSize), chunkCount(newBytes, chunkSize))
                recs == [i \in 1 .. n |-> chunkPatch(i - 1, literal)]
            IN \E c \in combineOutcomes(recs) :
                 /\ patchFile' = IF c = "ok" THEN writtenRecords(recs) ELSE NoPatch
                 /\ createRes' = chunkedOutcome(c)
       ELSE /\ patchFile' = <<Encode(oldBytes, newBytes, literal)>>
            /\ createRes' = "ok"
  /\ UNCHANGED <<rtFrame, rtEnv, outBytes, applyRes, verifyRes>>

\* applyPatch(old, patch, out) up to the start of the decoder: a missing patch
\* file gives the failure value; any file that exists is handed, whole and
\* unread, to the decoder
RT_applyPatch ==
  /\ rpc = "created"
  /\ IF patchFile = NoPatch
     THEN rpc' = "applied" /\ applyRes' = afterEmitError
     ELSE rpc' = "decoding" /\ applyRes' = applyRes
  /\ UNCHANGED <<rtFrame, rtEnv, patchFile, outBytes, createRes, verifyRes>>

\* applyPatch after the decoder closed: the decoded bytes are the output, a
\* failing decoder gives the failure value
RT_applyPatch_closed ==
  /\ rpc = "decoding"
  /\ rpc' = "applied"
  /\ LET d == Decode(oldBytes, patchFile)
     IN IF d.ok
        THEN outBytes' = d.bytes /\ applyRes' = "ok"
        ELSE outBytes' = outBytes /\ applyRes' = afterEmitError
  /\ UNCHANGED <<rtFrame, rtEnv, patchFile, createRes, verifyRes>>

\* verifyPatch(old, patch, new).  JavaScript: the call of
\* FileValidation.validateVerifyInputs throws, and the catch block rethrows.
\* TypeScript: the patch is applied to a temporary file and the sizes of the
\* temporary and the expected file are compared.
RT_verifyPatch ==
  /\ rpc = "applied"
  /\ rpc' = "verified"
  /\ LET d == Decode(oldBytes, patchFile)
     IN verifyRes' = IF impl = "js" THEN "throw"
                     ELSE IF patchFile # NoPatch /\ d.ok /\ Len(d.bytes) = Len(newBytes)
                     THEN "valid" ELSE "invalid"
  /\ UNCHANGED <<rtFrame, rtEnv, patchFile, outBytes, createRes, applyRes>>

\* a run on a fresh generator with a working tool and an 'error' listener:
\* any two contents up to MaxLen bytes, any chunk size, any threshold
InitRoundTrip ==
  /\ impl \in Impls
  /\ tool = "ok"
  /\ oldExists = TRUE
  /\ otherExists = TRUE
  /\ errorListener = TRUE
  /\ oldBytes \in Contents
  /\ newBytes \in Contents
  /\ chunkSize \in 1 .. MaxChunkSize
  /\ threshold \in 0 .. MaxLen
  /\ isLargeFile = isLarge(oldBytes, newBytes)
  /\ nOld = (IF isLargeFile /\ impl = "js" THEN chunkCount(oldBytes, chunkSize) ELSE 0)
  /\ nNew = (IF isLargeFile /\ impl = "js" THEN chunkCount(newBytes, chunkSize) ELSE 0)
  /\ OpIdle
  /\ IdleBatch
  /\ IdlePlan
  /\ IdleAux
  /\ rpc = "init"
  /\ patchFile = NoPatch
  /\ outBytes = NoFile
  /\ createRes = "none"
  /\ applyRes = "none"
  /\ verifyRes = "none"

NextRoundTrip ==
  \/ RT_createPatch
  \/ RT_applyPatch
  \/ RT_applyPatch_closed
  \/ RT_verifyPatch

SpecRoundTrip == InitRoundTrip /\ [][NextRoundTrip]_vars

\* C3: for any old and new contents and any chunk size, applying the patch
\* createPatch(old, new) made to old gives a file byte-identical to new, and
\* the create -> apply -> verify run ends with isValid = true, the chunked
\* path and empty files included.
C3_RoundTripRestoresNew ==
  /\ rpc \in {"applied", "verified"} => applyRes = "ok" /\ outBytes = newBytes
  /\ rpc = "verified" => verifyRes = "valid"

\* ------------------------------------------------------- chunk planning
MaxSize == 5           \* file size, in units of 32 MiB
MaxNegChunkArg == 1    \* the smallest chunkSize argument is -MaxNegChunkArg
MaxChunkArg == 3       \* largest chunkSize argument, in units of 32 MiB
MaxOverlap == 1        \* largest overlap argument
MaxPlan == 7           \* chunks pushed before the model stops following a loop

\* highWaterMark: Math.min(64 * 1024 * 1024, chunkSize), in units of 32 MiB
highWaterCap == 2
highWaterMark(c) == Min(highWaterCap, c)

\* createChunks(filePath, chunkSize, overlap) after fs.stat: the loop starts
createChunks_start ==
  /\ impl = "ts"
  /\ plState = "idle"
  /\ plState' = "running"
  /\ UNCHANGED <<planFrame, planEnv, plStart, plIndex, plPos, plRead, plChunks, plRaced>>

\* one iteration of `while (start < fileSize)`
createChunks_loop ==
  /\ impl = "ts"
  /\ plState = "running"
  /\ plStart < plSize
  /\ Len(plChunks) < MaxPlan
  /\ LET end == Min(plStart + plChunk, plSize)
     IN /\ plChunks' = Append(plChunks,
             [start |-> plStart, end |-> end, size |-> end - plStart, index |-> plIndex])
        /\ plStart' = end - plOverlap
        /\ plIndex' = plIndex + 1
  /\ UNCHANGED <<planFrame, planEnv, plState, plPos, plRead, plRaced>>

\* the loop condition fails: return chunks
createChunks_return ==
  /\ impl = "ts"
  /\ plState = "running"
  /\ plStart >= plSize
  /\ plState' = "returned"
  /\ UNCHANGED <<planFrame, planEnv, plStart, plIndex, plPos, plRead, plChunks, plRaced>>

\* createFileChunks(filePath, outputDir, chunkSize) up to the returned
\* promise: createReadStream throws on a negative highWaterMark, which the
\* catch block turns into Error('Erro ao criar chunks: ...')
createFileChunks_start ==
  /\ impl = "js"
  /\ plState = "idle"
  /\ plState' = IF highWaterMark(plChunk) < 0 THEN "failed" ELSE "running"
  /\ UNCHANGED <<planFrame, planEnv, plStart, plIndex, plPos, plRead, plChunks, plRaced>>

\* readStream.on('data'): the stream delivers up to highWaterMark bytes; the
\* handler adds them to bytesRead, writes them and, with bytesRead >=
\* chunkSize, starts closing the chunk (await writeStream.end)
createFileChunks_data ==
  /\ impl = "js"
  /\ plState = "running"
  /\ plPos < plSize
  /\ highWaterMark(plChunk) > 0
  /\ LET n == Min(highWaterMark(plChunk), plSize - plPos)
     IN /\ plPos' = plPos + n
        /\ plRead' = plRead + n
        /\ plState' = IF plRead + n >= plChunk THEN "closing" ELSE "running"
  /\ UNCHANGED <<planFrame, planEnv, plStart, plIndex, plChunks, plRaced>>

\* the record pushed for the chunk being closed
closedChunk ==
  [start |-> plIndex * plChunk, end |-> Min((plIndex + 1) * plChunk, plSize),
   size |-> plRead, index |-> plIndex]

\* the callback of writeStream.end in the data handler: the chunk is pushed,
\* chunkIndex advances, bytesRead is reset and the next write stream opened
createFileChunks_closed ==
  /\ impl = "js"
  /\ plState = "closing"
  /\ plChunks' = Append(plChunks, closedChunk)
  /\ plIndex' = plIndex + 1
  /\ plRead' = 0
  /\ plState' = "running"
  /\ UNCHANGED <<planFrame, planEnv, plStart, plPos, plRaced>>

\* the record the 'end' handler pushes for the last chunk
lastChunk ==
  [start |-> plIndex * plChunk, end |-> plSize, size |-> plRead, index |-> plIndex]

\* readStream.on('end') with no chunk being closed: the last chunk is pushed
\* when bytesRead > 0, and the promise resolves with chunks.  With
\* highWaterMark 0 the stream ends without data.
createFileChunks_end ==
  /\ impl = "js"
  /\ plState = "running"
  /\ plPos = plSize \/ highWaterMark(plChunk) = 0
  /\ plChunks' = IF plRead > 0 THEN Append(plChunks, lastChunk) ELSE plChunks
  /\ plState' = "returned"
  /\ UNCHANGED <<planFrame, planEnv, plStart, plIndex, plPos, plRead, plRaced>>

\* the next 'data' event arrives while the handler of the previous one still
\* awaits writeStream.end: the handlers are async and the stream is not
\* paused.  The chunk is written to the ending stream, whose error rejects
\* the promise or is unhandled.
createFileChunks_dataWhileClosing ==
  /\ impl = "js"
  /\ plState = "closing"
  /\ plPos < plSize
  /\ plState' = "failed"
  /\ plRaced' = TRUE
  /\ UNCHANGED <<planFrame, planEnv, plStart, plIndex, plPos, plRead, plChunks>>

\* the 'end' event arrives while the last data handler still awaits
\* writeStream.end: bytesRead is not reset yet, so the 'end' handler queues a
\* second callback on the same stream, and both push a record for this chunk
createFileChunks_endWhileClosing ==
  /\ impl = "js"
  /\ plState = "closing"
  /\ plPos = plSize
  /\ plChunks' = plChunks \o <<closedChunk, lastChunk>>
  /\ plState' = "returned"
  /\ plRaced' = TRUE
  /\ UNCHANGED <<planFrame, planEnv, plStart, plIndex, plPos, plRead>>

\* a planning call on a file of any size up to MaxSize, with any chunkSize
\* argument and, for createChunks, any overlap
InitChunks ==
  /\ impl \in Impls
  /\ tool = "ok"
  /\ oldExists = TRUE
  /\ otherExists = TRUE
  /\ errorListener = TRUE
  /\ isLargeFile = FALSE
  /\ nOld = 0
  /\ nNew = 0
  /\ OpIdle
  /\ IdleBatch
  /\ IdleRoundTrip
  /\ IdleAux
  /\ plSize \in 0 .. MaxSize
  /\ plChunk \in -MaxNegChunkArg .. MaxChunkArg
  /\ plOverlap \in (IF impl = "ts" THEN 0 .. MaxOverlap ELSE {0})
  /\ plState = "idle"
  /\ plStart = 0
  /\ plIndex = 0
  /\ plPos = 0
  /\ plRead = 0
  /\ plChunks = <<>>
  /\ plRaced = FALSE

NextChunks ==
  \/ createChunks_start
  \/ createChunks_loop
  \/ createChunks_return
  \/ createFileChunks_start
  \/ createFileChunks_data
  \/ createFileChunks_closed
  \/ createFileChunks_end
  \/ createFileChunks_dataWhileClosing
  \/ createFileChunks_endWhileClosing

SpecChunks == InitChunks /\ [][NextChunks]_vars

\* the ranges [start, end) of the list cover [0, size) exactly, in index
\* order, without gap or overlap
coversExactly(chs, size) ==
  /\ (size = 0) <=> (chs = <<>>)
  /\ chs # <<>> => chs[1].start = 0 /\ chs[Len(chs)].end = size
  /\ \A i \in DOMAIN chs :
       /\ chs[i].index = i - 1
       /\ chs[i].start < chs[i].end
       /\ i < Len(chs) => chs[i].end = chs[i + 1].start

\* C14: for any file size S >= 0 and chunk size C > 0 the chunk ranges
\* [start, end) that chunk planning produces cover [0, S) exactly, without
\* gaps or overlaps, in index order, and the last end equals S (an empty list
\* for S = 0).  Stated for calls without an overlap argument in which every
\* chunk was closed before the next stream event.
C14_ChunksCoverFile ==
  (plState = "returned" /\ plChunk > 0 /\ plOverlap = 0 /\ ~plRaced) =>
    coversExactly(plChunks, plSize)

\* C15: chunk planning called with a chunk size <= 0 fails with an
\* InvalidConfiguration error: it terminates and produces no chunk list.
C15_NonPositiveChunkSizeFails ==
  (plChunk <= 0 /\ plState # "idle") => (plChunks = <<>> /\ plState # "returned")

\* ------------------------------------------ verifyPatch on any expected file
\* the caller holds an old file, a patch some createPatch(old, target) wrote
\* (or no patch file) and an expected file, here newBytes; it applies the
\* patch and calls verifyPatch(old, patch, expected)
InitVerify ==
  /\ impl \in Impls
  /\ tool = "ok"
  /\ oldExists = TRUE
  /\ otherExists = TRUE
  /\ errorListener = TRUE
  /\ oldBytes \in Contents
  /\ newBytes \in Contents
  /\ chunkSize = MaxChunkSize
  /\ threshold = MaxLen
  /\ isLargeFile = FALSE
  /\ nOld = 0
  /\ nNew = 0
  /\ OpIdle
  /\ IdleBatch
  /\ IdlePlan
  /\ IdleAux
  /\ rpc = "created"
  /\ patchFile \in {<<Encode(oldBytes, target, literal)>> :
                       target \in Contents, literal \in BOOLEAN} \cup {NoPatch}
  /\ outBytes = NoFile
  /\ createRes = "ok"
  /\ applyRes = "none"
  /\ verifyRes = "none"

NextVerify ==
  \/ RT_applyPatch
  \/ RT_applyPatch_closed
  \/ RT_verifyPatch

SpecVerify == InitVerify /\ [][NextVerify]_vars

\* applying the patch file to the old file gives exactly the expected file
appliedEqualsExpected ==
  /\ patchFile # NoPatch
  /\ Decode(oldBytes, patchFile).ok
  /\ Decode(oldBytes, patchFile).bytes = newBytes

\* C13: verifyPatch reports isValid = true if and only if the file obtained
\* by applying the patch to the old file is byte-for-byte identical to the
\* expected file.
C13_ValidIffByteIdentical ==
  rpc = "verified" => ((verifyRes = "valid") <=> appliedEqualsExpected)

\* ------------------------------------------------- properties, single calls
Last(seq) == seq[Len(seq)]

\* the call is a chunked createPatch one of whose chunk jobs (an encoder run
\* or a chunk copy) failed
chunkJobFailed ==
  /\ method = "createPatch"
  /\ chunkResult # "none"
  /\ \E i \in DOMAIN children : children[i].settled = "rejected"

\* C1: if any chunk job of a chunked createPatch fails (the encoder exits
\* non-zero, times out, or a chunk copy fails), the createPatch call returns
\* success=false and never success=true.
C1_ChunkFailureFailsCreatePatch ==
  (pc = "done" /\ chunkJobFailed) => result = "fail"

\* one of the expected failure modes is present: an input file is missing,
\* the xdelta tool is unavailable, or a subprocess ran into its timeout
expectedFailure ==
  \/ ~oldExists
  \/ ~otherExists
  \/ tool = "missing"
  \/ elapsed # {}

\* C2: createPatch, applyPatch, verifyPatch and checkXdelta never throw or
\* reject when an input file is missing, the tool is unavailable or a
\* subprocess times out; the call returns a failure value.
C2_ExpectedFailuresNeverThrow ==
  (pc = "done" /\ method \in Calls /\ expectedFailure) => result # "throw"

isCreateOrApply == method \in {"createPatch", "applyPatch"}

\* C8: within a single createPatch or applyPatch call the percentages
\* delivered to the progress observers never decrease, the values emitted
\* while the encoder / decoder runs included.
C8_ProgressNeverDecreases ==
  isCreateOrApply =>
    \A i \in 1 .. (Len(progress) - 1) : progress[i] <= progress[i + 1]

\* C9: the final percentage of a createPatch / applyPatch call is 100 if and
\* only if the call's result is success, and a failing call never emits 100.
C9_FinalHundredIffSuccess ==
  (isCreateOrApply /\ pc = "done" /\ result \in {"ok", "fail"}) =>
    /\ (progress # <<>> /\ Last(progress) = 100) <=> (result = "ok")
    /\ result # "ok" => \A i \in DOMAIN progress : progress[i] # 100

\* the encoder runs of the call whose configured timeout passed before they
\* exited
timedOutEncoders ==
  {i \in elapsed : i \in DOMAIN children /\ children[i].kind = "spawn" /\ ~children[i].help}

\* C10: an encoder that has not exited within the configured timeout is
\* killed, its invocation is reported as failed, and the enclosing createPatch
\* call returns a failure result.
C10_TimedOutEncoderKilledAndCreateFails ==
  (method = "createPatch" /\ timedOutEncoders # {}) =>
    /\ \A i \in timedOutEncoders :
         children[i].killed /\ children[i].settled = "rejected"
    /\ pc = "done" => result = "fail"

\* the createPatch call failed because an encoder of it ran into the timeout:
\* the timer killed the encoder and the call did not return success
failedOnTimeout ==
  /\ method = "createPatch"
  /\ pc = "done"
  /\ result \in {"fail", "throw"}
  /\ \E i \in timedOutEncoders : children[i].killed

\* C11: after a createPatch call that fails because the encoder timed out, no
\* file exists at the destination patch path.
C11_NoPatchFileAfterTimeout ==
  failedOnTimeout => patchOnDisk = "absent"

\* the call is a chunked createPatch that has returned to its caller
chunkedCreateReturned ==
  /\ method = "createPatch"
  /\ pc = "done"
  /\ chunkResult # "none"

\* C12: every temporary chunk file and scratch directory a chunked createPatch
\* created has been removed when the call returns, on the success path and
\* on every failure path.
C12_TempRemovedAtReturn ==
  chunkedCreateReturned => ~tempDir

\* -------------------------------------------------------- properties, batch
\* the tasks that have been started and have not finished
unfinished == {f \in DOMAIN task : task[f] \in {"exists", "comparing", "op"}}

\* C4: during createBatchPatches / applyBatchPatches the number of per-pair
\* tasks started and not yet finished is at most maxParallel at every moment.
C4_AtMostMaxParallelTasks ==
  impl = "js" => Cardinality(unfinished) <= maxParallel

\* the records of file f in a result list
recordsFor(list, f) == {i \in DOMAIN list : list[i].file = f}

\* C5: when the batch call returns, its list holds exactly one outcome record
\* per input file, and no pair is still being processed.
C5_OneRecordPerFileAtReturn ==
  (impl = "js" /\ bpc = "returned") =>
    /\ \A f \in 1 .. nFiles : Cardinality(recordsFor(returned, f)) = 1
    /\ Len(returned) = nFiles
    /\ unfinished = {}

\* C6: a pair whose createPatch / applyPatch failed is recorded with status
\* 'error', and 'success' is recorded only for an operation that succeeded.
C6_StatusReflectsOperation ==
  \A i \in DOMAIN patches :
    /\ outcome[patches[i].file] \in {"fail", "throw"} => patches[i].status = "error"
    /\ patches[i].status = "success" => outcome[patches[i].file] = "ok"

\* the skipped records of a result list
skippedIn(list) == {i \in DOMAIN list : list[i].status = "skipped"}

\* C7: a pair whose old counterpart is absent gets the outcome 'skipped' and
\* no encoder / decoder runs for it; of N pairs with exactly one counterpart
\* missing, the batch returns N outcomes, exactly one of them 'skipped'.
C7_MissingCounterpartSkipped ==
  (impl = "js" /\ ~skipUnchanged) =>
    /\ \A i \in DOMAIN patches :
         patches[i].file \notin hasOld =>
           patches[i].status = "skipped" /\ outcome[patches[i].file] = "none"
    /\ (bpc = "returned" /\ Cardinality((1 .. nFiles) \ hasOld) = 1) =>
         Len(returned) = nFiles /\ Cardinality(skippedIn(returned)) = 1

\* ------------------------------------------- size tiers and the profile
\* Sizes are counted in units of 10 MiB, so that the three thresholds of
\* METRICS (10 MiB, 500 MiB, 1000 MiB) are whole numbers.
MaxTierSize == 101     \* largest file size drawn, one unit above the last threshold

LARGE_FILE_THRESHOLD == 1
HUGE_FILE_THRESHOLD == 50
EXTREME_FILE_THRESHOLD == 100

\* DEFAULT_OPTIONS.largeFileThreshold, 10 MiB
largeFileThreshold == 1

\* compression levels a caller may request (isValidCompressionLevel: MIN to MAX)
COMPRESSION_MIN == 0
COMPRESSION_MAX == 9

\* getOptimizationSettings: const isLarge, isHuge, isExtreme
isLargeSize(fileSize) == fileSize > LARGE_FILE_THRESHOLD
isHuge(fileSize) == fileSize > HUGE_FILE_THRESHOLD
isExtremeBelow(fileSize) == fileSize < EXTREME_FILE_THRESHOLD
isExtreme(fileSize) == fileSize > EXTREME_FILE_THRESHOLD

getOptimizedCompressionLevel(fileSize) ==
  IF fileSize > EXTREME_FILE_THRESHOLD THEN 0
  ELSE IF fileSize > HUGE_FILE_THRESHOLD THEN 0
  ELSE IF fileSize > LARGE_FILE_THRESHOLD THEN 1
  ELSE 3

shouldSkipVerification(fileSize) == fileSize > LARGE_FILE_THRESHOLD

shouldUseChunkProcessing(fileSize) == fileSize > EXTREME_FILE_THRESHOLD

\* the warning names the tier: EXTREME_FILE_WARNING, FILE_TOO_LARGE,
\* MEMORY_WARNING or null
getOptimizationSettings(fileSize) ==
  [compressionLevel |-> getOptimizedCompressionLevel(fileSize),
   skipVerification |-> shouldSkipVerification(fileSize),
   useStreaming |-> isLargeSize(fileSize),
   memoryOptimized |-> isLargeSize(fileSize),
   useChunkProcessing |-> shouldUseChunkProcessing(fileSize),
   warning |-> IF isExtreme(fileSize) THEN "extreme"
               ELSE IF isHuge(fileSize) THEN "huge"
               ELSE IF isLargeSize(fileSize) THEN "large"
               ELSE "null"]

\* LargeFileUtils.getOptimizationSettings applied to the two sizes
getOptimizationSettings_call ==
  /\ impl = "js"
  /\ prState = "idle"
  /\ prOld' = getOptimizationSettings(szOld)
  /\ prNew' = getOptimizationSettings(szNew)
  /\ prState' = "classified"
  /\ UNCHANGED <<profFrame, szOld, szNew, prRequested, prChunked, prLevel>>

\* createPatch of the JavaScript build, from isLargeFile to the encoder's
\* arguments: _createStandardPatch passes options.compression, the chunked
\* path passes optimizationSettings.compressionLevel of the new file's size
createPatchJS_selectPath ==
  /\ impl = "js"
  /\ prState = "classified"
  /\ \E c \in COMPRESSION_MIN .. COMPRESSION_MAX :
       LET large == szOld > largeFileThreshold \/ szNew > largeFileThreshold
       IN /\ prRequested' = c
          /\ prChunked' = large
          /\ prLevel' = IF large
                          THEN getOptimizationSettings(szNew).compressionLevel
                          ELSE c
  /\ prState' = "selected"
  /\ UNCHANGED <<profFrame, szOld, szNew, prOld, prNew>>

\* createPatch of the TypeScript build: both paths pass
\* options.compression ?? defaultOptions.compression ?? 9
createPatchTS_selectPath ==
  /\ impl = "ts"
  /\ prState = "idle"
  /\ \E c \in COMPRESSION_MIN .. COMPRESSION_MAX :
       /\ prRequested' = c
       /\ prChunked' = (szNew > largeFileThreshold)
       /\ prLevel' = c
  /\ prState' = "selected"
  /\ UNCHANGED <<profFrame, szOld, szNew, prOld, prNew>>

InitProfile ==
  /\ impl \in Impls
  /\ tool = "ok"
  /\ oldExists = TRUE
  /\ otherExists = TRUE
  /\ errorListener = TRUE
  /\ isLargeFile = FALSE
  /\ nOld = 0
  /\ nNew = 0
  /\ OpIdle
  /\ IdleBatch
  /\ IdleRoundTrip
  /\ IdlePlan
  /\ IdleTemp
  /\ szOld \in 0 .. MaxTierSize
  /\ szNew \in 0 .. MaxTierSize
  /\ prState = "idle"
  /\ prOld = "none"
  /\ prNew = "none"
  /\ prRequested = 0
  /\ prChunked = FALSE
  /\ prLevel = 0

NextProfile ==
  \/ getOptimizationSettings_call
  \/ createPatchJS_selectPath
  \/ createPatchTS_selectPath

SpecProfile == InitProfile /\ [][NextProfile]_vars

\* the order of the tiers: normal < large < huge < extreme
tierRank(warning) ==
  CASE warning = "null" -> 0
    [] warning = "large" -> 1
    [] warning = "huge" -> 2
    [] warning = "extreme" -> 3

\* the tiers whose size interval holds the size: normal up to the first
\* threshold, then one tier above each threshold
tiersOf(fileSize) ==
  {t \in {"null", "large", "huge", "extreme"} :
     \/ t = "null" /\ ~isLargeSize(fileSize)
     \/ t = "large" /\ isLargeSize(fileSize) /\ ~isHuge(fileSize)
     \/ t = "huge" /\ isHuge(fileSize) /\ ~isExtreme(fileSize)
     \/ t = "extreme" /\ isExtreme(fileSize)}

\* C16: size classification is monotone (for sizes a < b the tier of a is
\* never above the tier of b) and every size is in exactly one tier, the
\* one getOptimizationSettings names.
C16_TiersMonotone ==
  (impl = "js" /\ prState # "idle") =>
    /\ szOld < szNew => tierRank(prOld.warning) <= tierRank(prNew.warning)
    /\ szNew < szOld => tierRank(prNew.warning) <= tierRank(prOld.warning)
    /\ tiersOf(szOld) = {prOld.warning}
    /\ tiersOf(szNew) = {prNew.warning}

C16_Witness ==
  /\ impl = "js"
  /\ prState = "classified"
  /\ szOld < szNew
  /\ prOld.warning = "large"
  /\ prNew.warning = "extreme"

\* C17: an Extreme-tier file is processed in chunks with the minimum
\* compression level, and for a Normal-tier file the encoder gets exactly
\* the compression level the caller requested.
C17_ProfileByTier ==
  prState = "selected" =>
    /\ isExtreme(szNew) => (prChunked /\ prLevel = COMPRESSION_MIN)
    /\ ~isLargeSize(szNew) => prLevel = prRequested

\* subprocesses whose 'close' event was delivered while the caller was
\* still waiting for the result
reportedOnClose ==
  {i \in DOMAIN children :
     /\ children[i].kind = "spawn"
     /\ children[i].st = "closed"
     /\ children[i].code # <<>>
     /\ ~children[i].killed}

\* C18: a subprocess invocation is reported as successful exactly when its
\* exit code is 0, or when it is a help/usage invocation and its exit code
\* is 1; every other exit code is reported as a failure.
C18_SuccessIffExitCode ==
  \A i \in reportedOnClose :
    children[i].success <=>
      \/ children[i].code = <<0>>
      \/ children[i].help /\ children[i].code = <<1>>

\* ------------------------------------------- applyPatch on a container
\* the records createPatchWithChunks collects for the two files, in index
\* order: what combinePatchChunks is given to write
containerRecords(literal) ==
  [i \in 1 .. Max(chunkCount(oldBytes, chunkSize), chunkCount(newBytes, chunkSize)) |->
     chunkPatch(i - 1, literal)]

\* applyPatch on a patch file that holds the first k records of a container
\* (all of them, or a file cut short), on a single VCDIFF patch, or on no
\* file at all
InitApply ==
  /\ impl \in Impls
  /\ tool = "ok"
  /\ oldExists = TRUE
  /\ otherExists = TRUE
  /\ errorListener = TRUE
  /\ oldBytes \in Contents
  /\ newBytes \in Contents
  /\ chunkSize \in 1 .. MaxChunkSize
  /\ threshold = 0
  /\ isLargeFile = FALSE
  /\ nOld = 0
  /\ nNew = 0
  /\ OpIdle
  /\ IdleBatch
  /\ IdlePlan
  /\ IdleAux
  /\ rpc = "created"
  /\ patchFile \in
       {SubSeq(containerRecords(literal), 1, k) :
          k \in 0 .. Len(containerRecords(TRUE)), literal \in BOOLEAN}
       \cup {<<Encode(oldBytes, newBytes, literal)>> : literal \in BOOLEAN}
       \cup {NoPatch}
  /\ outBytes = NoFile
  /\ createRes = "ok"
  /\ applyRes = "none"
  /\ verifyRes = "none"

NextApply ==
  \/ RT_applyPatch
  \/ RT_applyPatch_closed

SpecApply == InitApply /\ [][NextApply]_vars

\* the patch file is a container whose records are not the chunks of the two
\* files: it was cut short
malformedContainer ==
  /\ patchFile # NoPatch
  /\ \E literal \in BOOLEAN :
       /\ Len(patchFile) < Len(containerRecords(literal))
       /\ patchFile = SubSeq(containerRecords(literal), 1, Len(patchFile))

\* C19: applying a malformed container (truncated, or with a chunk count
\* that does not match) fails, and the failure is found before a decoder
\* subprocess is started for the apply.
C19_MalformedContainerRejectedBeforeDecode ==
  malformedContainer =>
    /\ rpc # "decoding"
    /\ rpc = "applied" => applyRes # "ok"

\* ------------------------------ two chunked creates and their temp files
\* Two calls of createPatchWithChunks of the JavaScript build run at once
\* (two workers of createBatchPatches, or two direct calls).  Each call is
\* followed from fs.ensureDir(tempDir) to fs.remove(tempDir); every await
\* between them is a step.
Ops == {1, 2}
TempNames == {"chunk_0.bin", "patch_chunk_0.xdelta", "combined_patch.xdelta"}

\* const tempDir = path.join(path.dirname(patchFile), 'temp_chunks')
tempDirOf(o) == IF tSameDir THEN 1 ELSE o

otherOp(o) == 3 - o
opRunning(o) == tpc[o] \notin {"idle", "done", "failed"}

\* the operation that wrote the file, 0 when the file does not exist
writerOf(d, name) == tFiles[<<d, name>>]

\* what operation o does to a file while the other operation runs
touches(o, d, name, kind) ==
  IF writerOf(d, name) = otherOp(o) /\ opRunning(otherOp(o))
  THEN {<<o, kind, name>>}
  ELSE {}

\* await fs.ensureDir(tempDir)
temp_ensureDir(o) ==
  /\ tpc[o] = "idle"
  /\ tpc' = [tpc EXCEPT ![o] = "split"]
  /\ tDir' = [tDir EXCEPT ![tempDirOf(o)] = TRUE]
  /\ UNCHANGED <<tempFrame, tSameDir, tFiles, tEvents>>

\* createFileChunks(oldFile, tempDir, chunkSize) and then of newFile:
\* createWriteStream(tempDir/chunk_0.bin) truncates the file of that name;
\* without the directory it fails
temp_createFileChunks(o) ==
  /\ tpc[o] = "split"
  /\ LET d == tempDirOf(o)
     IN IF tDir[d]
        THEN /\ tFiles' = [tFiles EXCEPT ![<<d, "chunk_0.bin">>] = o]
             /\ tEvents' = tEvents \cup touches(o, d, "chunk_0.bin", "overwrite")
             /\ tpc' = [tpc EXCEPT ![o] = "encode"]
        ELSE /\ tpc' = [tpc EXCEPT ![o] = "failed"]
             /\ UNCHANGED <<tFiles, tEvents>>
  /\ UNCHANGED <<tempFrame, tSameDir, tDir>>

\* the encoder of chunk 0 reads tempDir/chunk_0.bin and writes
\* tempDir/patch_chunk_0.xdelta; await Promise.all(chunkPromises)
temp_encodeChunk(o) ==
  /\ tpc[o] = "encode"
  /\ LET d == tempDirOf(o)
     IN IF tDir[d] /\ writerOf(d, "chunk_0.bin") # 0
        THEN /\ tFiles' = [tFiles EXCEPT ![<<d, "patch_chunk_0.xdelta">>] = o]
             /\ tEvents' = tEvents \cup touches(o, d, "chunk_0.bin", "read")
                                   \cup touches(o, d, "patch_chunk_0.xdelta", "overwrite")
             /\ tpc' = [tpc EXCEPT ![o] = "combine"]
        ELSE /\ tpc' = [tpc EXCEPT ![o] = "failed"]
             /\ UNCHANGED <<tFiles, tEvents>>
  /\ UNCHANGED <<tempFrame, tSameDir, tDir>>

\* await this.combinePatchChunks(patchChunks, tempDir/combined_patch.xdelta)
temp_combinePatchChunks(o) ==
  /\ tpc[o] = "combine"
  /\ LET d == tempDirOf(o)
     IN IF tDir[d] /\ writerOf(d, "patch_chunk_0.xdelta") # 0
        THEN /\ tFiles' = [tFiles EXCEPT ![<<d, "combined_patch.xdelta">>] = o]
             /\ tEvents' = tEvents \cup touches(o, d, "patch_chunk_0.xdelta", "read")
                                   \cup touches(o, d, "combined_patch.xdelta", "overwrite")
             /\ tpc' = [tpc EXCEPT ![o] = "move"]
        ELSE /\ tpc' = [tpc EXCEPT ![o] = "failed"]
             /\ UNCHANGED <<tFiles, tEvents>>
  /\ UNCHANGED <<tempFrame, tSameDir, tDir>>

\* await fs.move(combinedPatchPath, patchFile, { overwrite: true })
temp_move(o) ==
  /\ tpc[o] = "move"
  /\ LET d == tempDirOf(o)
     IN IF tDir[d] /\ writerOf(d, "combined_patch.xdelta") # 0
        THEN /\ tFiles' = [tFiles EXCEPT ![<<d, "combined_patch.xdelta">>] = 0]
             /\ tEvents' = tEvents \cup touches(o, d, "combined_patch.xdelta", "read")
             /\ tpc' = [tpc EXCEPT ![o] = "remove"]
        ELSE /\ tpc' = [tpc EXCEPT ![o] = "failed"]
             /\ UNCHANGED <<tFiles, tEvents>>
  /\ UNCHANGED <<tempFrame, tSameDir, tDir>>

\* await fs.remove(tempDir): the directory and every file in it
temp_remove(o) ==
  /\ tpc[o] = "remove"
  /\ LET d == tempDirOf(o)
     IN /\ tDir' = [tDir EXCEPT ![d] = FALSE]
        /\ tFiles' = [k \in DOMAIN tFiles |-> IF k[1] = d THEN 0 ELSE tFiles[k]]
        /\ tEvents' = tEvents \cup
             UNION {touches(o, d, name, "delete") : name \in TempNames}
  /\ tpc' = [tpc EXCEPT ![o] = "done"]
  /\ UNCHANGED <<tempFrame, tSameDir>>

InitTemp ==
  /\ impl = "js"
  /\ tool = "ok"
  /\ oldExists = TRUE
  /\ otherExists = TRUE
  /\ errorListener = TRUE
  /\ isLargeFile = TRUE
  /\ nOld = 1
  /\ nNew = 1
  /\ OpIdle
  /\ IdleBatch
  /\ IdleRoundTrip
  /\ IdlePlan
  /\ IdleProfile
  /\ tSameDir \in BOOLEAN
  /\ tpc = [o \in Ops |-> "idle"]
  /\ tDir = [d \in Ops |-> FALSE]
  /\ tFiles = [k \in Ops \X TempNames |-> 0]
  /\ tEvents = {}

NextTemp ==
  \E o \in Ops :
    \/ temp_ensureDir(o)
    \/ temp_createFileChunks(o)
    \/ temp_encodeChunk(o)
    \/ temp_combinePatchChunks(o)
    \/ temp_move(o)
    \/ temp_remove(o)

SpecTemp == InitTemp /\ [][NextTemp]_vars

\* C20: two create operations running at once never read, overwrite or
\* delete each other's temporary chunk files.
C20_TempFilesOwnedByOneOperation ==
  tEvents = {}

\* --------------------------------- createPatchWithChunks on many chunks
MaxPoolChunks == 5     \* chunks of the old / of the new file, above maxParallelChunks

\* createPatch of the JavaScript build has reached createPatchWithChunks on
\* a pair of files of up to MaxPoolChunks chunks each
InitPool ==
  /\ impl = "js"
  /\ tool = "ok"
  /\ oldExists = TRUE
  /\ otherExists = TRUE
  /\ errorListener = TRUE
  /\ isLargeFile = TRUE
  /\ nOld \in 0 .. MaxPoolChunks
  /\ nNew \in 0 .. MaxPoolChunks
  /\ nOld + nNew > 0
  /\ xdeltaChecked = TRUE
  /\ xdeltaAvailable = TRUE
  /\ calls = 1
  /\ method = "createPatch"
  /\ stack = <<"createPatch">>
  /\ pc = "cwc_start"
  /\ ret = "none"
  /\ result = "none"
  /\ progress = <<0, 10, 20, 0, 100, 30, 40>>
  /\ ticks = 0
  /\ interval = FALSE
  /\ children = NoChildren
  /\ elapsed = {}
  /\ chunkResult = "none"
  /\ batchStart = 0
  /\ patchChunks = <<>>
  /\ tempDir = FALSE
  /\ patchOnDisk = "absent"
  /\ combined = <<>>
  /\ outOfOrder = FALSE
  /\ notices = <<>>
  /\ IdleBatch
  /\ IdleRoundTrip
  /\ IdlePlan
  /\ IdleAux

NextPool ==
  \/ createPatchWithChunks_start
  \/ \E i \in DOMAIN children : ChildClose(i)
  \/ \E i \in DOMAIN children : TimeoutElapses(i)
  \/ \E i \in DOMAIN children, ok \in BOOLEAN : ChunkCopyEnds(i, ok)
  \/ createPatchWithChunks_batchDone
  \/ createPatchJS_chunksReturned

SpecPool == InitPool /\ [][NextPool]_vars

indexesIncrease(recs) ==
  \A a, b \in DOMAIN recs : a < b => recs[a].index < recs[b].index

\* C21: the combined patch of a chunked createPatch holds the chunk records
\* in increasing chunk-index order, whatever order the chunk jobs ended in:
\* the list handed to combinePatchChunks is in index order, and so are the
\* records of the combined file.
C21_RecordsInIndexOrder ==
  /\ indexesIncrease(patchChunks)
  /\ chunkResult = "ok" => indexesIncrease(combined)

C21_Witness ==
  /\ chunkResult = "ok"
  /\ outOfOrder
  /\ Len(patchChunks) >= 2
  /\ combined # <<>>

\* the chunk indexes only one of the two files has
unpaired == Min(nOld, nNew) .. (Max(nOld, nNew) - 1)

\* C22: with N old and M new chunks, N # M, every index from min(N, M) to
\* max(N, M) - 1 gives a new-only record (copy) or an old-only record
\* (removed), and no encoder subprocess is started for such an index.
C22_UnpairedChunksNotEncoded ==
  /\ \A i \in DOMAIN children : i \in unpaired => children[i].kind # "spawn"
  /\ \A r \in DOMAIN patchChunks :
       patchChunks[r].index \in unpaired =>
         patchChunks[r].type = (IF nNew > nOld THEN "new_chunk" ELSE "removed_chunk")

C22_Witness ==
  /\ nOld > 0
  /\ nNew > nOld
  /\ \E r \in DOMAIN patchChunks : patchChunks[r].type = "new_chunk"
  /\ \E i \in DOMAIN children : i \in unpaired /\ children[i].kind = "copy"

runningEncoders ==
  {i \in DOMAIN children : children[i].kind = "spawn" /\ children[i].st = "running"}

\* C23: during a chunked createPatch at most 4 chunk encoder subprocesses
\* run at any moment, and a further chunk job is started only after a
\* running one has finished.
C23_AtMostFourEncoders ==
  /\ [](Cardinality(runningEncoders) <= 4)
  /\ [][(DOMAIN children # {} /\ \E k \in DOMAIN children' : k \notin DOMAIN children)
          => \E i \in DOMAIN children : children[i].st = "closed"]_vars

C23_Witness ==
  /\ batchStart > 0
  /\ nOld > maxParallelChunks
  /\ nNew > maxParallelChunks
  /\ runningEncoders # {}

\* C29: when a chunked createPatch reports success, the destination holds the
\* combined output of every chunk record: the combined stream took every
\* record and was written and closed before the move and the return.
C29_CombinedHoldsEveryRecord ==
  (pc = "done" /\ result = "ok" /\ patchOnDisk = "complete") => combined = patchChunks

\* the percentages the interval has emitted in the running phase, and the
\* one emitted just before the interval was set (the phase floor)
synthetic == SubSeq(progress, Len(progress) - ticks + 1, Len(progress))
phaseFloor == progress[Len(progress) - ticks]

risesWithin(seq, floor, ceiling) ==
  /\ \A k \in DOMAIN seq : floor <= seq[k] /\ seq[k] < ceiling
  /\ \A k \in DOMAIN seq : k > 1 => seq[k - 1] <= seq[k]

\* the phase of the last call completed: the value emitted when the
\* subprocess had succeeded, before the closing 100%
completedPhase(m) ==
  /\ impl = "ts"
  /\ method = m
  /\ pc = "done"
  /\ result = "ok"
  /\ ~isLargeFile

\* C24: synthetic progress starts at the phase floor, rises monotonically
\* below the phase ceiling (30 to 90 for create, 40 to 80 for apply), and
\* the ceiling itself is emitted when the phase completes.
C24_SyntheticProgressInPhase ==
  /\ (impl = "ts" /\ pc = "tsp_run") => phaseFloor = 30 /\ risesWithin(synthetic, 30, 90)
  /\ (impl = "ts" /\ pc = "ap_run") => phaseFloor = 40 /\ risesWithin(synthetic, 40, 80)
  /\ completedPhase("createPatch") => progress[Len(progress) - 1] = 90
  /\ completedPhase("applyPatch") => progress[Len(progress) - 1] = 80

\* a probe subprocess (`xdelta3 -h`) has been started and has not reported
probeRunning ==
  \E i \in DOMAIN children : children[i].help /\ children[i].settled = "pending"

\* C25: the tool-availability result is cached once per instance: after the
\* first checkXdelta of an instance has completed, no later checkXdelta
\* (direct or inside createPatch / applyPatch) runs the probe subprocess.
C25_ProbeRunsOncePerInstance ==
  xdeltaChecked => ~probeRunning

\* ---------------------------------------------------------------- C26
\* a createPatch / applyPatch call has given its caller a result while a
\* listener for the 'error' event is registered
callEnded ==
  pc = "done" /\ method \in {"createPatch", "applyPatch"} /\ errorListener

\* C26: each createPatch / applyPatch call delivers exactly one terminal
\* notification to a registered listener: one 'complete' when the result is
\* success, one 'error' when the result is failure; never both and never the
\* same one twice.
C26_OneTerminalNotice ==
  callEnded => notices = IF result = "ok" THEN <<"complete">> ELSE <<"error">>

\* ---------------------------------------------------------------- C27
\* no progress event follows a 100% event of the running call
nothingAfterHundred ==
  \A i \in 1 .. Len(progress) - 1 : progress[i] # 100

\* once the call has given its caller a result, progress changes only when
\* the next call starts
silentAfterSettle ==
  pc = "done" => (progress' = progress \/ calls' # calls)

\* C27: no progress event of an operation is emitted after the operation's
\* promise has settled or after its 100% event: the synthetic-progress
\* interval is cleared on every exit path before the call returns.
C27_NoProgressAfterEnd ==
  /\ [](pc = "done" => ~interval)
  /\ [][silentAfterSettle]_vars
  /\ []nothingAfterHundred

\* ---------------------------------------------------------------- C28
\* the jobs of the state are those of the next state: no call started and
\* the running function did not move on
sameJobs == pc' = pc /\ calls' = calls /\ DOMAIN children' = DOMAIN children

\* the promise of job i keeps its outcome once it has one, and once 'close'
\* or 'error' was handled the timer is not armed and kills nothing
outcomeKept(i) ==
  /\ children[i].settled # "pending" =>
        /\ children'[i].settled = children[i].settled
        /\ children'[i].success = children[i].success
  /\ children[i].st = "closed" =>
        /\ ~children'[i].timer
        /\ children'[i].killed = children[i].killed

\* C28: each spawnCommand invocation settles exactly once and its first
\* outcome is final: after a timeout rejection a later close or error event
\* of the killed process does not change the outcome, and once close or error
\* has been handled the timeout timer never fires or kills anything.
C28_SpawnSettlesOnce ==
  /\ [](\A i \in DOMAIN children :
          (impl = "js" /\ children[i].kind = "spawn") =>
            /\ children[i].st = "closed" =>
                  ~children[i].timer /\ children[i].settled # "pending"
            /\ children[i].killed => children[i].settled = "rejected")
  /\ [][(impl = "js" /\ sameJobs) =>
          \A i \in DOMAIN children : children[i].kind = "spawn" => outcomeKept(i)]_vars

\* the timer of a subprocess fired and rejected, and the process, which had
\* exited by itself, closed afterwards with code 0
C28_Witness ==
  /\ impl = "js"
  /\ \E i \in DOMAIN children :
        /\ children[i].killed
        /\ children[i].st = "closed"
        /\ children[i].code = <<0>>
        /\ children[i].settled = "rejected"

\* ---------------------------------------------------------------- C30
\* an iteration of the loop of createChunks ends with the start offset it
\* began with, below the file size: the loop condition reads only start and
\* fileSize, so every later iteration does the same and the loop never ends
loopRepeats ==
  /\ plState = "running"
  /\ plChunks' # plChunks
  /\ plStart' <= plStart
  /\ plStart' < plSize

\* C30: createChunks terminates and returns a finite chunk list for every
\* file size, every chunk size > 0 and every overlap with
\* 0 <= overlap < chunk size.
C30_CreateChunksTerminates ==
  [][(impl = "ts" /\ plChunk > 0 /\ plOverlap >= 0 /\ plOverlap < plChunk)
       => ~loopRepeats]_vars

====
